---- MODULE Spec2Model ----
(***************************************************************************)
(* Model of the dice core of denede (src/src/dice.rs): the single-dice     *)
(* parser Dice::parse, the compound parser CompoundDiceRoll::parse, the    *)
(* roll engine Dice::roll with its randomness source call_randomorg, and   *)
(* the compound evaluator CompoundDiceRoll::result.                        *)
(*                                                                         *)
(* A text is a sequence of one-character strings.  Numbers are Rust        *)
(* integers of the width the source gives them.                            *)
(***************************************************************************)
EXTENDS Integers, Sequences, FiniteSets, TLC

VARIABLES
    text,       \* the input handed to CompoundDiceRoll::parse
    phase,      \* "input" | "parsed" | "rolling" | "done"
    parsed,     \* the Result of CompoundDiceRoll::parse
    checks,     \* overflow checks of the build: "on" (debug), "off" (release,
                \* it wraps), or "unknown" while no step has depended on them
    die,        \* die[i]: the state of the future dice[i].roll()
    outcome,    \* the Result of CompoundDiceRoll::result
    mock        \* the oracle of a test: the replies it hands out in turn and
                \* the turn of each request that has arrived

vars == <<text, phase, parsed, checks, die, outcome, mock>>

----------------------------------------------------------------------------
(* Characters and numbers *)

U16Max == 65535
AmountLimit == 50
SidesLimit == 1000
DefaultSides == 20

DigitChars == {"0", "1", "2", "3", "4", "5", "6", "7", "8", "9"}

LowerChars ==
    {"a", "b", "c", "d", "e", "f", "g", "h", "i", "j", "k", "l", "m",
     "n", "o", "p", "q", "r", "s", "t", "u", "v", "w", "x", "y", "z"}

WhitespaceChars == {" "}

ArithChars == {"+", "-", "*", "/"}

DigitVal(c) ==
    CASE c = "0" -> 0 [] c = "1" -> 1 [] c = "2" -> 2 [] c = "3" -> 3
      [] c = "4" -> 4 [] c = "5" -> 5 [] c = "6" -> 6 [] c = "7" -> 7
      [] c = "8" -> 8 [] c = "9" -> 9

\* char::to_lowercase on the letters the inputs use
ToLower(c) ==
    CASE c = "D" -> "d" [] c = "K" -> "k" [] c = "E" -> "e" [] c = "S" -> "s"
      [] OTHER -> c

IsDigits(s) == \A i \in 1..Len(s) : s[i] \in DigitChars

\* str::parse::<u16> on a text without sign characters: every character a
\* digit, at least one, and the value accumulated with checked arithmetic.
\* The result is -1 when the parse fails.
RECURSIVE AccU16(_, _)
AccU16(s, acc) ==
    IF s = <<>> THEN acc
    ELSE LET next == acc * 10 + DigitVal(Head(s))
         IN  IF next > U16Max THEN -1 ELSE AccU16(Tail(s), next)

ParseU16(s) ==
    IF s = <<>> \/ ~IsDigits(s) THEN -1 ELSE AccU16(s, 0)

\* Regex::split on \d+ (digit = TRUE) or \D+ (digit = FALSE), empty pieces
\* filtered out: the maximal runs of the other character class, in order.
RECURSIVE Runs(_, _, _)
Runs(s, digit, cur) ==
    IF s = <<>> THEN (IF cur = <<>> THEN <<>> ELSE <<cur>>)
    ELSE IF (Head(s) \in DigitChars) = digit
         THEN Runs(Tail(s), digit, Append(cur, Head(s)))
         ELSE (IF cur = <<>> THEN <<>> ELSE <<cur>>) \o Runs(Tail(s), digit, <<>>)

AlphaRuns(s) == Runs(s, FALSE, <<>>)
DigitRuns(s) == Runs(s, TRUE, <<>>)

----------------------------------------------------------------------------
(* DICE_IDS_MAP *)

DiceIdsMap ==
    { <<<< >>, "Regular">>,
      <<<< <<"d">> >>, "Drop">>,
      <<<< <<"k">> >>, "Keep">>,
      <<<< <<"r">> >>, "Reroll">>,
      <<<< <<"r", "k">> >>, "RerollOnceAndKeep">>,
      <<<< <<"r", "c">> >>, "RerollOnceAndChoose">>,
      <<<< <<"s">> >>, "Success">>,
      <<<< <<"e">> >>, "Explode">>,
      <<<< <<"e">>, <<"s">> >>, "ExplodingSuccess">>,
      <<<< <<"e", "s">> >>, "ExplodingSuccess">>,
      <<<< <<"o">> >>, "Open">>,
      <<<< <<"d", "h">> >>, "DropHigh">>,
      <<<< <<"k", "l">> >>, "KeepLow">>,
      <<<< <<"u">> >>, "UpperBound">>,
      <<<< <<"l">> >>, "LowerBound">>,
      <<<< <<"a">>, <<"u">> >>, "AddUpperBound">>,
      <<<< <<"a">>, <<"l">> >>, "AddLowerBound">>,
      <<<< <<"s">>, <<"u">> >>, "SubtractUpperBound">>,
      <<<< <<"s">>, <<"l">> >>, "SubtractLowerBound">>,
      <<<< <<"o", "e", "l">>, <<"h">> >>, "OpenEnded">>,
      <<<< <<"o", "e">> >>, "OpenEndedImplicit">> }

\* valid_ids: every part of every key of the map
ValidIds == UNION { {e[1][i] : i \in 1..Len(e[1])} : e \in DiceIdsMap }

HasKind(ids) == \E e \in DiceIdsMap : e[1] = ids
KindOf(ids) == (CHOOSE e \in DiceIdsMap : e[1] = ids)[2]

----------------------------------------------------------------------------
(* Results: status is "ok", "err" (a DiceError, kind in err) or "panic"     *)
(* (the thread aborts, the message in err).                                 *)

NoDice == [amount |-> 0, sides |-> 0, kind |-> "Regular", args |-> <<>>]

DiceOk(d) == [status |-> "ok", err |-> "", dice |-> d]
DiceErr(k) == [status |-> "err", err |-> k, dice |-> NoDice]
DicePanic(m) == [status |-> "panic", err |-> m, dice |-> NoDice]

RemoveFirst(s) == IF s = <<>> THEN s ELSE Tail(s)

\* args.insert(1, x)
InsertAt1(s, x) == <<s[1], x>> \o Tail(s)

\* "Add optional args for those ops that support them"
BackfillArgs(kind, args) ==
    IF kind \in {"Explode", "Open"} /\ Len(args) = 1 THEN Append(args, U16Max)
    ELSE IF kind = "ExplodingSuccess" /\ Len(args) = 2 THEN InsertAt1(args, U16Max)
    ELSE args

\* the limits with the sides tested before the amount
LimitsErrorSidesFirst(amount, sides) ==
    IF sides > SidesLimit THEN "DiceTooManySides"
    ELSE IF amount > AmountLimit THEN "DiceAmountTooLarge"
    ELSE ""

\* "Arbitrary limits checks"
LimitsError(amount, sides) ==
    IF amount > AmountLimit THEN "DiceAmountTooLarge"
    ELSE IF sides > SidesLimit THEN "DiceTooManySides"
    ELSE ""

\* The tail of Dice::parse, from "Extract numbers" on.
DiceParseNumbers(s, kind, specifies_sides) ==
    LET starts_by_number == s[1] \in DigitChars
        runs == DigitRuns(s)
        amount == IF starts_by_number THEN ParseU16(runs[1]) ELSE 1
        vals == [i \in 1..Len(runs) |-> ParseU16(runs[i])]
        numbers0 == IF runs = <<>> THEN <<DefaultSides>> ELSE vals
        numbers1 == IF starts_by_number THEN RemoveFirst(numbers0) ELSE numbers0
        takes_sides == specifies_sides /\ numbers1 # <<>>
        sides == IF takes_sides THEN numbers1[1] ELSE DefaultSides
        rest == IF takes_sides THEN Tail(numbers1) ELSE numbers1
        args == BackfillArgs(kind, rest)
        limit == LimitsError(amount, sides)
    IN  IF amount = -1 THEN DiceErr("DiceStringNumberTooLarge")
        ELSE IF \E i \in 1..Len(runs) : vals[i] = -1
             THEN DiceErr("DiceStringNumberTooLarge")
        ELSE IF runs = <<>> /\ ~(~starts_by_number /\ specifies_sides)
             THEN DicePanic("Found die different than [d] without any numbers")
        ELSE IF Len(numbers0) > 4
             THEN DicePanic("Too many die numbers specified")
        ELSE IF limit # "" THEN DiceErr(limit)
        ELSE DiceOk([amount |-> amount, sides |-> sides, kind |-> kind, args |-> args])

\* Dice::parse
DiceParse(s) ==
    IF s = <<>> \/ \E i \in 1..Len(s) : s[i] \notin (LowerChars \cup DigitChars)
    THEN DiceErr("DiceStringInvalidCharacters")
    ELSE IF ParseU16(s) # -1
    THEN DiceOk([amount |-> ParseU16(s), sides |-> 1, kind |-> "Regular", args |-> <<>>])
    ELSE LET ids0 == AlphaRuns(s)
         IN  IF ids0 = <<>> THEN DicePanic("index out of bounds: ids[0]")
             ELSE LET specifies_sides == ids0[1] = <<"d">>
                      ids == IF specifies_sides THEN Tail(ids0) ELSE ids0
                  IN  IF Len(ids) > 2 THEN DiceErr("DiceStringTooManyParts")
                      ELSE IF \E i \in 1..Len(ids) : ids[i] \notin ValidIds
                           THEN DiceErr("DiceStringInvalidOp")
                      ELSE IF ~HasKind(ids) THEN DiceErr("DiceStringInvalidOp")
                      ELSE DiceParseNumbers(s, KindOf(ids), specifies_sides)

----------------------------------------------------------------------------
(* CompoundDiceRoll::parse *)

\* whitespace_regex.replace_all(text, "").to_lowercase()
StripLower(s) ==
    LET kept == SelectSeq(s, LAMBDA c : c \notin WhitespaceChars)
    IN  [i \in 1..Len(kept) |-> ToLower(kept[i])]

\* the length of the run of c that s starts with
RECURSIVE RunLen(_, _)
RunLen(s, c) ==
    IF s # <<>> /\ Head(s) = c THEN 1 + RunLen(Tail(s), c) ELSE 0

\* redundant_pluses_regex (\+\++) replaced by "+"
RECURSIVE CollapsePluses(_)
CollapsePluses(s) ==
    IF s = <<>> THEN <<>>
    ELSE LET n == RunLen(s, "+")
         IN  IF n >= 2 THEN <<"+">> \o CollapsePluses(SubSeq(s, n + 1, Len(s)))
             ELSE <<Head(s)>> \o CollapsePluses(Tail(s))

\* redundant_minuses_regex ((\-\-)+) replaced by "+": a greedy match takes
\* every whole pair of the run
RECURSIVE CollapseMinusPairs(_)
CollapseMinusPairs(s) ==
    IF s = <<>> THEN <<>>
    ELSE LET n == RunLen(s, "-")
             m == 2 * (n \div 2)
         IN  IF n >= 2 THEN <<"+">> \o CollapseMinusPairs(SubSeq(s, m + 1, Len(s)))
             ELSE <<Head(s)>> \o CollapseMinusPairs(Tail(s))

\* replace_all of the two-character pattern a b by "-", leftmost first
RECURSIVE ReplacePair(_, _, _)
ReplacePair(s, a, b) ==
    IF Len(s) < 2 THEN s
    ELSE IF s[1] = a /\ s[2] = b
         THEN <<"-">> \o ReplacePair(SubSeq(s, 3, Len(s)), a, b)
         ELSE <<Head(s)>> \o ReplacePair(Tail(s), a, b)

\* one turn of the loop that collapses unary operations
CollapsePass(s) ==
    ReplacePair(ReplacePair(CollapseMinusPairs(CollapsePluses(s)), "-", "+"), "+", "-")

\* the loop left after its first turn
CollapseOnce(s) == CollapsePass(s)

RECURSIVE CollapseSigns(_)
CollapseSigns(s) ==
    LET new_text == CollapsePass(s)
    IN  IF new_text = s THEN s ELSE CollapseSigns(new_text)

Last(s) == s[Len(s)]
Front(s) == SubSeq(s, 1, Len(s) - 1)

FlipSign(c) == IF c = "+" THEN "-" ELSE IF c = "-" THEN "+" ELSE c

\* a trailing '-' that negates the first term only
TrailingSignFirst(s) ==
    IF s # <<>> /\ Last(s) = "+" THEN Front(s)
    ELSE IF s # <<>> /\ Last(s) = "-"
    THEN IF Len(s) > 1 /\ s[1] \in {"+", "-"}
         THEN <<FlipSign(s[1])>> \o SubSeq(s, 2, Len(s) - 1)
         ELSE <<"-">> \o Front(s)
    ELSE s

\* "Handle trailing (end) unary arithmetic operations"
TrailingSign(s) ==
    IF s # <<>> /\ Last(s) = "+" THEN Front(s)
    ELSE IF s # <<>> /\ Last(s) = "-"
    THEN LET flipped == [i \in 1..(Len(s) - 1) |-> FlipSign(s[i])]
         IN  IF Len(flipped) > 0 /\ flipped[1] \in {"+", "-"}
             THEN flipped
             ELSE <<"-">> \o flipped
    ELSE s

\* Regex::split on [\+\-\*\/]: the pieces between the operators, empty ones kept
RECURSIVE SplitOps(_, _)
SplitOps(s, cur) ==
    IF s = <<>> THEN <<cur>>
    ELSE IF Head(s) \in ArithChars
         THEN <<cur>> \o SplitOps(Tail(s), <<>>)
         ELSE SplitOps(Tail(s), Append(cur, Head(s)))

\* arithmetic_ops.find_iter(&text), each converted into a DiceArithmeticOp
ArithOp(c) ==
    CASE c = "+" -> "Add" [] c = "-" -> "Subtract"
      [] c = "*" -> "Multiply" [] c = "/" -> "Divide"

\* a search that finds the signs only
FindOpsSigns(s) ==
    LET found == SelectSeq(s, LAMBDA c : c \in {"+", "-"})
    IN  [i \in 1..Len(found) |-> ArithOp(found[i])]

FindOps(s) ==
    LET found == SelectSeq(s, LAMBDA c : c \in ArithChars)
    IN  [i \in 1..Len(found) |-> ArithOp(found[i])]

CompoundOk(d, o) == [status |-> "ok", err |-> "", dice |-> d, ops |-> o]
CompoundErr(k) == [status |-> "err", err |-> k, dice |-> <<>>, ops |-> <<>>]
CompoundPanic(m) == [status |-> "panic", err |-> m, dice |-> <<>>, ops |-> <<>>]

\* dice_exprs.map(Dice::parse).collect::<Result<Vec<_>>>(): the pieces are
\* parsed in order and the first one that fails ends the parse
ParsePieces(pieces) ==
    LET res == [i \in 1..Len(pieces) |-> DiceParse(pieces[i])]
        bad == {i \in 1..Len(pieces) : res[i].status # "ok"}
        first == CHOOSE i \in bad : \A j \in bad : i <= j
    IN  IF bad = {} THEN [status |-> "ok", err |-> "",
                          dice |-> [i \in 1..Len(pieces) |-> res[i].dice]]
        ELSE [status |-> res[first].status, err |-> res[first].err, dice |-> <<>>]

CompoundParse(input) ==
    LET t == TrailingSign(CollapseSigns(StripLower(input)))
        split == SplitOps(t, <<>>)
        dice_exprs == IF t # <<>> /\ t[1] \in {"+", "-"} THEN Tail(split) ELSE split
        pieces == ParsePieces(dice_exprs)
    IN  IF t # <<>> /\ Last(t) \in {"*", "/"}
        THEN CompoundErr("CompoundDiceExprInvalidOpStructure")
        ELSE IF \E i \in 1..Len(dice_exprs) : dice_exprs[i] = <<>>
        THEN CompoundErr("CompoundDiceExprInvalidOpStructure")
        ELSE IF pieces.status = "err" THEN CompoundErr(pieces.err)
        ELSE IF pieces.status = "panic" THEN CompoundPanic(pieces.err)
        ELSE CompoundOk(pieces.dice, FindOps(t))


----------------------------------------------------------------------------
(* Integer arithmetic of the widths the source uses.  An operation whose    *)
(* mathematical result leaves the type panics in a build with overflow      *)
(* checks (mode "on") and wraps in a build without (mode "off").            *)

I16Min == -32768
I16Max == 32767
I32Max == 2147483647

InU16(x) == 0 <= x /\ x <= U16Max
InI16(x) == I16Min <= x /\ x <= I16Max

WrapU16(x) == x % (U16Max + 1)
WrapI16(x) == ((x - I16Min) % (U16Max + 1)) + I16Min

Min2(a, b) == IF a <= b THEN a ELSE b
Max2(a, b) == IF a >= b THEN a ELSE b

RECURSIVE SumSeq(_)
SumSeq(s) == IF s = <<>> THEN 0 ELSE Head(s) + SumSeq(Tail(s))

\* iter().sum::<u16>(): TRUE when some partial sum leaves u16
RECURSIVE SumOverflowsU16(_, _)
SumOverflowsU16(s, acc) ==
    IF s = <<>> THEN FALSE
    ELSE ~InU16(acc + Head(s)) \/ SumOverflowsU16(Tail(s), acc + Head(s))

\* how many elements of s are in the set wanted
CountIf(s, wanted) == Cardinality({i \in 1..Len(s) : s[i] \in wanted})

----------------------------------------------------------------------------
(* process_randomorg_request and call_randomorg *)

\* every sequence of num values of lo..hi
RECURSIVE Draws(_, _, _)
Draws(num, lo, hi) ==
    IF num = 0 THEN { <<>> }
    ELSE { <<v>> \o rest : v \in lo..hi, rest \in Draws(num - 1, lo, hi) }

\* the bodies RANDOM.ORG keeps its contract with: a request for num integers
\* of min..max is answered with num lines in that range
Contract(num, max, min) == Draws(num, min, max)

\* bodies that break the contract in one place: a line missing, a line too
\* many, or one line with the value above max
Rogue(num, max, min) ==
    { SubSeq(l, 1, num - 1) : l \in IF num > 0 THEN Contract(num, max, min) ELSE {} }
      \cup { Append(l, max) : l \in Contract(num, max, min) }
      \cup { [l EXCEPT ![i] = IF max < U16Max THEN max + 1 ELSE -1] :
                l \in Contract(num, max, min), i \in 1..num }

\* A response of RANDOM.ORG: the transport fails ("unreachable"), the body
\* cannot be read ("unreadable"), the body does not start with a digit
\* ("nodigit"), or it is lines of text ("lines"), a line being the u16 it
\* parses to or -1 when it does not parse.  A body of no lines has no first
\* character.
Responses(num, max, min) ==
    { [kind |-> k, lines |-> <<>>] : k \in {"unreachable", "unreadable", "nodigit"} }
      \cup { [kind |-> "lines", lines |-> <<-1>>] }
      \cup { [kind |-> "lines", lines |-> l] :
               l \in Contract(num, max, min) \cup Rogue(num, max, min) }

ProcessRandomOrgRequest(r) ==
    IF r.kind = "unreachable" THEN [ok |-> FALSE, err |-> "RandomOrgUnreachable", seq |-> <<>>]
    ELSE IF r.kind \in {"unreadable", "nodigit"} \/ r.lines = <<>>
    THEN [ok |-> FALSE, err |-> "RandomOrgInvalidResponse", seq |-> <<>>]
    ELSE IF \E i \in 1..Len(r.lines) : r.lines[i] = -1
    THEN [ok |-> FALSE, err |-> "RandomOrgOutOfRange", seq |-> <<>>]
    ELSE [ok |-> TRUE, err |-> "", seq |-> r.lines]

\* what call_randomorg(num, max, min) can return: the sequence of a response
\* that was processed, or num values of the local generator
CallRandomOrg(num, max, min) ==
    LET got == { ProcessRandomOrgRequest(r) : r \in Responses(num, max, min) }
    IN  { [seq |-> g.seq, truly |-> TRUE] : g \in {x \in got : x.ok} }
          \cup (IF \E g \in got : ~g.ok
                THEN { [seq |-> p, truly |-> FALSE] : p \in Draws(num, min, max) }
                ELSE {})

----------------------------------------------------------------------------
(* DiceResult and the state of one dice.roll() future *)

None == -1

RollNone == [status |-> "none", err |-> "", seq |-> <<>>,
             truly_random |-> FALSE, success_threshold |-> None]
RollOk(seq, truly, threshold) ==
    [status |-> "ok", err |-> "", seq |-> seq,
     truly_random |-> truly, success_threshold |-> threshold]
RollErr(kind) == [RollNone EXCEPT !.status = "err", !.err = kind]
RollPanic(msg) == [RollNone EXCEPT !.status = "panic", !.err = msg]

\* DiceResult::zero
Zero == RollOk(<<>>, FALSE, None)

NoRequest == [num |-> 0, max |-> 0, min |-> 0]

\* pc: "start", the await the future is suspended at, or "done".  seq, last,
\* acc, idx, cnt and truly are the locals of the roll function; requests and
\* fallbacks count the calls of call_randomorg and those of them that the
\* local generator served; rogues counts the replies that broke the contract
\* of RANDOM.ORG.
FutureInit ==
    [pc |-> "start", req |-> NoRequest, seq |-> <<>>, last |-> <<>>, acc |-> <<>>,
     idx |-> 0, cnt |-> 0, truly |-> TRUE, res |-> RollNone,
     requests |-> 0, fallbacks |-> 0, rogues |-> 0]

Return(st, res) == [st EXCEPT !.pc = "done", !.req = NoRequest, !.res = res]

\* call_randomorg(num, max, min).await
Await(st, pc, num, max, min) ==
    [st EXCEPT !.pc = pc, !.req = [num |-> num, max |-> max, min |-> min],
               !.requests = @ + 1]

\* the reply r of call_randomorg arrives
Received(st, r) ==
    [st EXCEPT !.req = NoRequest,
               !.fallbacks = IF r.truly THEN @ ELSE @ + 1,
               !.rogues = IF r.seq \in Contract(st.req.num, st.req.max, st.req.min)
                          THEN @ ELSE @ + 1]

ArgsPanic == "index out of bounds: args"


----------------------------------------------------------------------------
(* The roll functions.  XStart runs a function to its first await or to    *)
(* its return; XResume runs it on from an await, given the reply r of      *)
(* call_randomorg, to its next await or to its return.                     *)

InvalidArgument == RollErr("DiceExprInvalidArgument")
InvalidSides == RollErr("DiceExprInvalidSides")

Sorted(seq) == SortSeq(seq, LAMBDA a, b : a < b)

\* Dice::regular
RegularStart(d, st) ==
    IF d.kind = "Reroll" /\ Len(d.args) < 1 THEN Return(st, RollPanic(ArgsPanic))
    ELSE LET threshold == IF d.kind = "Reroll" THEN d.args[1] ELSE 1
         IN  IF threshold > d.sides THEN Return(st, InvalidArgument)
             ELSE IF d.sides = 1 THEN Return(st, RollOk(<<d.amount>>, TRUE, None))
             ELSE Await(st, "regular", d.amount, d.sides, threshold)

RegularResume(d, st, r) ==
    Return(Received(st, r), RollOk(r.seq, r.truly, None))

\* Dice::success
SuccessStart(d, st) ==
    IF Len(d.args) < 1 THEN Return(st, RollPanic(ArgsPanic))
    ELSE IF d.args[1] > d.sides THEN Return(st, RollOk(<<0>>, TRUE, None))
    ELSE IF d.sides = 1 THEN Return(st, RollOk(<<d.amount>>, TRUE, None))
    ELSE Await(st, "success", d.amount, d.sides, 1)

SuccessResume(d, st, r) ==
    Return(Received(st, r), RollOk(r.seq, r.truly, d.args[1]))

\* the loop of Dice::drop over the drawn values
RECURSIVE DropWalk(_, _, _, _, _, _)
DropWalk(rest, high, threshold, drop_count, dropped_seq, dropped) ==
    IF rest = <<>> THEN dropped_seq
    ELSE LET value == Head(rest)
             drop_condition == IF high THEN value >= threshold ELSE value <= threshold
             seq2 == IF drop_condition THEN Append(dropped_seq, value) ELSE dropped_seq
             dropped2 == IF drop_condition THEN dropped ELSE dropped + 1
         IN  IF dropped2 = drop_count THEN seq2
             ELSE DropWalk(Tail(rest), high, threshold, drop_count, seq2, dropped2)

\* Dice::drop
DropStart(d, st) ==
    IF Len(d.args) < 1 THEN Return(st, RollPanic(ArgsPanic))
    ELSE IF d.args[1] > d.amount THEN Return(st, InvalidArgument)
    ELSE IF d.sides = 1 THEN Return(st, RollOk(<<d.amount - d.args[1]>>, TRUE, None))
    ELSE Await(st, "drop", d.amount, d.sides, 1)

\* index is the 0-based index into sorted_seq; drop_count - 1 below zero is
\* a subtraction overflow or, wrapped, an index past the end: a panic in
\* either build
DropResume(d, st, r) ==
    LET got == [Received(st, r) EXCEPT !.seq = r.seq]
        drop_count == d.args[1]
        sorted_seq == Sorted(r.seq)
        high == d.kind = "DropHigh"
        index == IF high THEN Len(sorted_seq) - drop_count ELSE drop_count - 1
    IN  IF index < 0 \/ index >= Len(sorted_seq)
        THEN Return(got, RollPanic("index out of bounds: sorted_seq"))
        ELSE Return(got,
                    RollOk(DropWalk(r.seq, high, sorted_seq[index + 1], drop_count, <<>>, 0),
                           r.truly, None))

\* the loop taken from the last drawn value to the first
RECURSIVE KeepWalkBack(_, _, _, _, _)
KeepWalkBack(rest, low, threshold, keep_count, kept_seq) ==
    IF rest = <<>> THEN kept_seq
    ELSE LET value == Last(rest)
             keep_condition == IF low THEN value <= threshold ELSE value >= threshold
             seq2 == IF keep_condition THEN Append(kept_seq, value) ELSE kept_seq
         IN  IF Len(seq2) = keep_count THEN seq2
             ELSE KeepWalkBack(Front(rest), low, threshold, keep_count, seq2)

\* the loop of Dice::keep over the drawn values
RECURSIVE KeepWalk(_, _, _, _, _)
KeepWalk(rest, low, threshold, keep_count, kept_seq) ==
    IF rest = <<>> THEN kept_seq
    ELSE LET value == Head(rest)
             keep_condition == IF low THEN value <= threshold ELSE value >= threshold
             seq2 == IF keep_condition THEN Append(kept_seq, value) ELSE kept_seq
         IN  IF Len(seq2) = keep_count THEN seq2
             ELSE KeepWalk(Tail(rest), low, threshold, keep_count, seq2)

\* Dice::keep
KeepStart(d, st) ==
    IF Len(d.args) < 1 THEN Return(st, RollPanic(ArgsPanic))
    ELSE IF d.args[1] > d.amount THEN Return(st, InvalidArgument)
    ELSE IF d.sides = 1 THEN Return(st, RollOk(<<d.args[1]>>, TRUE, None))
    ELSE Await(st, "keep", d.amount, d.sides, 1)

KeepResume(d, st, r) ==
    LET got == [Received(st, r) EXCEPT !.seq = r.seq]
        keep_count == d.args[1]
        sorted_seq == Sorted(r.seq)
        low == d.kind = "KeepLow"
        index == IF low THEN keep_count - 1 ELSE Len(r.seq) - keep_count
    IN  IF index < 0 \/ index >= Len(sorted_seq)
        THEN Return(got, RollPanic("index out of bounds: sorted_seq"))
        ELSE Return(got,
                    RollOk(KeepWalk(r.seq, low, sorted_seq[index + 1], keep_count, <<>>),
                           r.truly, None))

\* the map with Choose taking the lesser of the two
RECURSIVE RerollMapLeast(_, _, _, _)
RerollMapLeast(seq, rerolls, threshold, choose) ==
    IF seq = <<>> THEN <<>>
    ELSE IF Head(seq) < threshold
    THEN <<IF choose THEN Min2(Head(seq), Head(rerolls)) ELSE Head(rerolls)>>
             \o RerollMapLeast(Tail(seq), Tail(rerolls), threshold, choose)
    ELSE <<Head(seq)>> \o RerollMapLeast(Tail(seq), rerolls, threshold, choose)

\* the map of Dice::reroll_once over the first draw
RECURSIVE RerollMap(_, _, _, _)
RerollMap(seq, rerolls, threshold, choose) ==
    IF seq = <<>> THEN <<>>
    ELSE IF Head(seq) < threshold
    THEN <<IF choose THEN Max2(Head(seq), Head(rerolls)) ELSE Head(rerolls)>>
             \o RerollMap(Tail(seq), Tail(rerolls), threshold, choose)
    ELSE <<Head(seq)>> \o RerollMap(Tail(seq), rerolls, threshold, choose)

\* Dice::reroll_once
RerollOnceStart(d, st) ==
    IF Len(d.args) < 1 THEN Return(st, RollPanic(ArgsPanic))
    ELSE IF d.args[1] > d.sides THEN Return(st, InvalidArgument)
    ELSE IF d.sides = 1 THEN Return(st, RollOk(<<d.amount>>, TRUE, None))
    ELSE Await(st, "reroll_first", d.amount, d.sides, 1)

RerollOnceResume(d, st, r) ==
    LET threshold == d.args[1]
        got == Received(st, r)
    IN  IF st.pc = "reroll_first"
        THEN LET reroll_count == CountIf(r.seq, 0..(threshold - 1))
             IN  IF reroll_count = 0 THEN Return(got, RollOk(r.seq, r.truly, None))
                 ELSE Await([got EXCEPT !.seq = r.seq, !.truly = r.truly],
                            "reroll_second", reroll_count, d.sides, threshold)
        ELSE IF Len(r.seq) # CountIf(st.seq, 0..(threshold - 1))
        THEN Return(got, RollPanic("Reroll count mismatch"))
        ELSE Return(got,
                    RollOk(RerollMap(st.seq, r.seq, threshold,
                                     d.kind = "RerollOnceAndChoose"),
                           st.truly /\ r.truly, None))

\* the loop without its depth limit
ExplodeLoopUnbounded(d, st) ==
    IF CountIf(st.last, {d.sides}) = 0
    THEN Return(st, RollOk(st.seq, st.truly,
                           IF d.kind = "ExplodingSuccess" THEN d.args[2] ELSE None))
    ELSE Await(st, "explode_next", CountIf(st.last, {d.sides}), d.sides, 1)

\* the head of the loop of Dice::explode
ExplodeLoop(d, st) ==
    LET i == CountIf(st.last, {d.sides})
        limit == d.args[1]
    IN  IF i = 0 \/ st.cnt >= limit
        THEN Return(st, RollOk(st.seq, st.truly,
                               IF d.kind = "ExplodingSuccess" THEN d.args[2] ELSE None))
        ELSE Await(st, "explode_next", i, d.sides, 1)

\* Dice::explode
ExplodeStart(d, st) ==
    IF d.kind = "ExplodingSuccess" /\ Len(d.args) < 2 THEN Return(st, RollPanic(ArgsPanic))
    ELSE IF d.kind = "ExplodingSuccess" /\ d.args[2] > d.sides THEN Return(st, InvalidArgument)
    ELSE IF d.sides = 1 THEN Return(st, InvalidSides)
    ELSE Await(st, "explode_first", d.amount, d.sides, 1)

ExplodeResume(d, st, r) ==
    LET got == Received(st, r)
    IN  IF st.pc = "explode_first"
        THEN IF Len(d.args) < 1 THEN Return(got, RollPanic(ArgsPanic))
             ELSE ExplodeLoop(d, [got EXCEPT !.seq = r.seq, !.last = r.seq,
                                             !.truly = r.truly, !.cnt = 0])
        ELSE IF Len(r.seq) # CountIf(st.last, {d.sides})
        THEN Return(got, RollPanic("Explode count mismatch"))
        ELSE ExplodeLoop(d, [got EXCEPT !.seq = st.seq \o r.seq, !.last = r.seq,
                                        !.truly = st.truly /\ r.truly,
                                        !.cnt = st.cnt + 1])

\* the loops of Dice::open: st.idx is the die the for loop is at, st.last
\* its last_roll (the value the for loop found there) and st.cnt its
\* rerolls_done
RECURSIVE OpenLoop(_, _)
OpenLoop(d, st) ==
    IF st.idx > Len(st.seq) THEN Return(st, RollOk(st.seq, st.truly, None))
    ELSE IF st.last = <<d.sides>> /\ st.cnt < d.args[1]
    THEN Await(st, "open_next", 1, d.sides, 1)
    ELSE OpenLoop(d, [st EXCEPT !.idx = st.idx + 1, !.cnt = 0,
                                !.last = IF st.idx + 1 <= Len(st.seq)
                                         THEN <<st.seq[st.idx + 1]>> ELSE <<>>])

\* Dice::open
OpenStart(d, st) ==
    IF d.sides = 1 THEN Return(st, InvalidSides)
    ELSE Await(st, "open_first", d.amount, d.sides, 1)

OpenResume(d, st, r, mode) ==
    LET got == Received(st, r)
    IN  IF st.pc = "open_first"
        THEN IF Len(d.args) < 1 THEN Return(got, RollPanic(ArgsPanic))
             ELSE OpenLoop(d, [got EXCEPT !.seq = r.seq, !.truly = r.truly,
                                          !.idx = 1, !.cnt = 0,
                                          !.last = IF r.seq = <<>> THEN <<>>
                                                   ELSE <<r.seq[1]>>])
        ELSE IF Len(r.seq) # 1 THEN Return(got, RollPanic("Open roll count mismatch"))
        ELSE LET value == st.seq[st.idx] + r.seq[1]
             IN  IF ~InU16(value) /\ mode = "on"
                 THEN Return(got, RollPanic("attempt to add with overflow"))
                 ELSE OpenLoop(d, [got EXCEPT !.seq[st.idx] = WrapU16(value),
                                              !.truly = st.truly /\ r.truly,
                                              !.cnt = st.cnt + 1])


UpperKinds == {"UpperBound", "AddUpperBound", "SubtractUpperBound"}
LowerKinds == {"LowerBound", "AddLowerBound", "SubtractLowerBound"}
BoundedKinds == UpperKinds \cup LowerKinds
PlainBoundKinds == {"UpperBound", "LowerBound"}
SubtractKinds == {"SubtractUpperBound", "SubtractLowerBound"}

\* bound and modifier of Dice::bounded, as the mathematical i16 values;
\* "as i16" wraps in every build
BoundOf(d) ==
    WrapI16(IF d.kind \in PlainBoundKinds THEN d.args[1] ELSE d.args[2])

\* the negation, which leaves i16 for i16::MIN
ModifierOf(d) ==
    IF d.kind \in PlainBoundKinds THEN 0
    ELSE IF d.kind \in SubtractKinds THEN -WrapI16(d.args[1])
    ELSE WrapI16(d.args[1])

\* the value of the sides == 1 closed form before "as u16", and whether an
\* operation on the way to it leaves i16
ClosedBounded(d) ==
    LET modifier == WrapI16(ModifierOf(d))
        inner == WrapI16(modifier + 1)
        factor == IF d.kind \in UpperKinds
                  THEN Max2(Min2(BoundOf(d), inner), 0)
                  ELSE Max2(BoundOf(d), inner)
        product == WrapI16(d.amount) * factor
    IN  [overflow |-> ~InI16(ModifierOf(d)) \/ ~InI16(modifier + 1) \/ ~InI16(product),
         value |-> WrapI16(product)]

\* one element of the map of Dice::bounded, before "as u16"
BoundedValue(d, value) ==
    LET shifted == WrapI16(WrapI16(value) + WrapI16(ModifierOf(d)))
    IN  IF d.kind \in UpperKinds
        THEN Max2(Min2(shifted, BoundOf(d)), 0)
        ELSE Max2(shifted, BoundOf(d))

BoundedOverflows(d, seq) ==
    \E i \in 1..Len(seq) : ~InI16(WrapI16(seq[i]) + WrapI16(ModifierOf(d)))

\* Dice::bounded
BoundedStart(d, st, mode) ==
    IF Len(d.args) < (IF d.kind \in PlainBoundKinds THEN 1 ELSE 2)
    THEN Return(st, RollPanic(ArgsPanic))
    ELSE IF ~InI16(ModifierOf(d)) /\ mode = "on"
    THEN Return(st, RollPanic("attempt to negate with overflow"))
    ELSE IF d.sides = 1
    THEN IF ClosedBounded(d).overflow /\ mode = "on"
         THEN Return(st, RollPanic("attempt to add or multiply with overflow"))
         ELSE Return(st, RollOk(<<WrapU16(ClosedBounded(d).value)>>, TRUE, None))
    ELSE Await(st, "bounded", d.amount, d.sides, 1)

BoundedResume(d, st, r, mode) ==
    IF BoundedOverflows(d, r.seq) /\ mode = "on"
    THEN Return(Received(st, r), RollPanic("attempt to add with overflow"))
    ELSE Return(Received(st, r),
                RollOk([i \in 1..Len(r.seq) |-> WrapU16(BoundedValue(d, r.seq[i]))],
                       r.truly, None))

\* low and high of Dice::open_ended; the implicit high is the u16
\* subtraction sides + 1 - low
LowOf(d) == d.args[1]
HighExact(d) == IF d.kind = "OpenEnded" THEN d.args[2] ELSE d.sides + 1 - d.args[1]
HighOf(d) == WrapU16(HighExact(d))

\* the for loop of Dice::open_ended: st.idx is the value it is at
RECURSIVE OpenEndedLoop(_, _)
OpenEndedLoop(d, st) ==
    IF st.idx > Len(st.seq) THEN Return(st, RollOk(st.acc, st.truly, None))
    ELSE IF st.seq[st.idx] >= HighOf(d) THEN Await(st, "open_ended_high", 1, d.sides, 1)
    ELSE IF st.seq[st.idx] <= LowOf(d) THEN Await(st, "open_ended_low", 1, d.sides, 1)
    ELSE OpenEndedLoop(d, [st EXCEPT !.idx = st.idx + 1])

\* Dice::open_ended
OpenEndedStart(d, st, mode) ==
    IF d.sides = 1 THEN Return(st, InvalidSides)
    ELSE IF Len(d.args) < (IF d.kind = "OpenEnded" THEN 2 ELSE 1)
    THEN Return(st, RollPanic(ArgsPanic))
    ELSE IF ~InU16(HighExact(d)) /\ mode = "on"
    THEN Return(st, RollPanic("attempt to subtract with overflow"))
    ELSE IF HighOf(d) <= LowOf(d) \/ HighOf(d) > d.sides THEN Return(st, InvalidArgument)
    ELSE Await(st, "open_ended_first", d.amount, d.sides, 1)

OpenEndedResume(d, st, r, mode) ==
    LET got == Received(st, r)
    IN  IF st.pc = "open_ended_first"
        THEN OpenEndedLoop(d, [got EXCEPT !.seq = r.seq, !.truly = r.truly, !.idx = 1,
                                          !.acc = [i \in 1..Len(r.seq) |-> 0]])
        ELSE IF Len(r.seq) # 1
        THEN Return(got, RollPanic("Open-ended roll count mismatch"))
        ELSE LET value == IF st.pc = "open_ended_high"
                          THEN st.acc[st.idx] + r.seq[1]
                          ELSE st.acc[st.idx] - r.seq[1]
                 next == [got EXCEPT !.acc[st.idx] = WrapU16(value),
                                     !.truly = st.truly /\ r.truly]
             IN  IF ~InU16(value) /\ mode = "on"
                 THEN Return(got, RollPanic("attempt to add or subtract with overflow"))
                 ELSE IF r.seq[1] < HighOf(d)
                 THEN OpenEndedLoop(d, [next EXCEPT !.idx = st.idx + 1])
                 ELSE Await(next, st.pc, 1, d.sides, 1)

\* Dice::roll, to the first await or the return of the function it calls
RollStart(d, st, mode) ==
    IF d.amount = 0 \/ d.sides = 0 THEN Return(st, Zero)
    ELSE CASE d.kind \in {"Regular", "Reroll"} -> RegularStart(d, st)
           [] d.kind = "Success" -> SuccessStart(d, st)
           [] d.kind \in {"Drop", "DropHigh"} -> DropStart(d, st)
           [] d.kind \in {"Keep", "KeepLow"} -> KeepStart(d, st)
           [] d.kind \in {"RerollOnceAndKeep", "RerollOnceAndChoose"} -> RerollOnceStart(d, st)
           [] d.kind \in {"Explode", "ExplodingSuccess"} -> ExplodeStart(d, st)
           [] d.kind = "Open" -> OpenStart(d, st)
           [] d.kind \in BoundedKinds -> BoundedStart(d, st, mode)
           [] d.kind \in {"OpenEnded", "OpenEndedImplicit"} -> OpenEndedStart(d, st, mode)


----------------------------------------------------------------------------
(* CompoundDiceRoll::result *)

\* i32 addition and multiplication: whether the exact result leaves i32,
\* and the wrapped result, computed without leaving the 32 bits themselves
AddOverflowsI32(a, b) ==
    \/ a > 0 /\ b > 0 /\ a > I32Max - b
    \/ a < 0 /\ b < 0 /\ a < (-I32Max - 1) - b

WrapAddI32(a, b) ==
    IF a > 0 /\ b > 0 /\ a > I32Max - b THEN (a - I32Max - 1) + (b - I32Max - 1)
    ELSE IF a < 0 /\ b < 0 /\ a < (-I32Max - 1) - b THEN (a + I32Max + 1) + (b + I32Max + 1)
    ELSE a + b

\* a * b for 0 <= b
MulOverflowsI32(a, b) ==
    /\ b > 0
    /\ \/ a > 0 /\ a > I32Max \div b
       \/ a < 0 /\ a < ((-I32Max - 1) + (b - 1)) \div b

RECURSIVE WrapMulI32(_, _)
WrapMulI32(a, b) ==
    IF b = 0 THEN 0
    ELSE LET half == WrapMulI32(WrapAddI32(a, a), b \div 2)
         IN  IF b % 2 = 1 THEN WrapAddI32(half, a) ELSE half

\* one step of the integer fold
IntStep(acc, result, op) ==
    CASE op = "Add" -> [overflow |-> AddOverflowsI32(acc, result),
                        value |-> WrapAddI32(acc, result)]
      [] op = "Subtract" -> [overflow |-> AddOverflowsI32(acc, -result),
                             value |-> WrapAddI32(acc, -result)]
      [] op = "Multiply" -> [overflow |-> MulOverflowsI32(acc, result),
                             value |-> WrapMulI32(acc, result)]

\* the fold taken from the right: the last pair is applied first
RECURSIVE IntFoldRight(_, _, _)
IntFoldRight(results, ops, acc) ==
    IF results = <<>> \/ ops = <<>> THEN [overflow |-> FALSE, value |-> acc]
    ELSE LET rest == IntFoldRight(Tail(results), Tail(ops), acc)
             step == IntStep(rest.value, Head(results), Head(ops))
         IN  [overflow |-> step.overflow \/ rest.overflow, value |-> step.value]

RECURSIVE IntFold(_, _, _)
IntFold(results, ops, acc) ==
    IF results = <<>> \/ ops = <<>> THEN [overflow |-> FALSE, value |-> acc]
    ELSE LET step == IntStep(acc, Head(results), Head(ops))
             rest == IntFold(Tail(results), Tail(ops), step.value)
         IN  [overflow |-> step.overflow \/ rest.overflow, value |-> rest.value]

\* The f64 fold, on exact fractions num / den with den > 0: the values the
\* fold computes before f64 rounds them.
RECURSIVE Gcd(_, _)
Gcd(a, b) == IF b = 0 THEN a ELSE Gcd(b, a % b)

Abs(x) == IF x < 0 THEN -x ELSE x

Fraction(n, d) ==
    LET g == Gcd(Abs(n), Abs(d))
        sign == IF d < 0 THEN -1 ELSE 1
    IN  IF n = 0 THEN [num |-> 0, den |-> 1]
        ELSE [num |-> sign * (n \div g), den |-> sign * (d \div g)]

FloatStep(acc, result, op) ==
    CASE op = "Add" -> Fraction(acc.num + result * acc.den, acc.den)
      [] op = "Subtract" -> Fraction(acc.num - result * acc.den, acc.den)
      [] op = "Multiply" -> Fraction(acc.num * result, acc.den)
      [] op = "Divide" -> Fraction(acc.num, acc.den * result)

RECURSIVE FloatFold(_, _, _)
FloatFold(results, ops, acc) ==
    IF results = <<>> \/ ops = <<>> THEN acc
    ELSE FloatFold(Tail(results), Tail(ops), FloatStep(acc, Head(results), Head(ops)))

NoTotal == [kind |-> "none", num |-> 0, den |-> 1]

NoOutcome ==
    [status |-> "none", err |-> "", individuals |-> <<>>, results |-> <<>>,
     total |-> NoTotal]
ResultErr(kind) == [NoOutcome EXCEPT !.status = "err", !.err = kind]
ResultPanic(msg) == [NoOutcome EXCEPT !.status = "panic", !.err = msg]

\* the first error, however many there are
RollErrorsFirst(errors) == ResultErr(errors[1].err)

\* "Handle roll errors": errors is not empty
RollErrors(errors) ==
    IF Len(errors) = 1 THEN ResultErr(errors[1].err)
    ELSE ResultErr("CompoundDiceMultipleRollErrors")

\* CompoundDiceRoll::result from the point where join_all has returned rolls
ResultOf(dice, ops, rolls, mode) ==
    LET n == Len(rolls)
        errors == SelectSeq(rolls, LAMBDA res : res.status = "err")
        results == [i \in 1..n |-> WrapU16(SumSeq(rolls[i].seq))]
        ops1 == IF Len(ops) < n THEN <<"Add">> \o ops ELSE ops
        has_divide == \E i \in 1..Len(ops) : ops[i] = "Divide"
        pairs == 1..Min2(n, Len(ops1))
        int == IntFold(results, ops1, 0)
    IN  IF Len(errors) > 0 THEN RollErrors(errors)
        ELSE IF mode = "on" /\ \E i \in 1..n : SumOverflowsU16(rolls[i].seq, 0)
        THEN ResultPanic("attempt to add with overflow")
        ELSE IF \E i \in pairs : results[i] = 0 /\ ops1[i] = "Divide"
        THEN ResultErr("DiceExprDivisionByZero")
        ELSE IF has_divide
        THEN [status |-> "ok", err |-> "", individuals |-> rolls, results |-> results,
              total |-> [kind |-> "Float"] @@ FloatFold(results, ops1, Fraction(0, 1))]
        ELSE IF mode = "on" /\ int.overflow
        THEN ResultPanic("attempt to add, subtract or multiply with overflow")
        ELSE [status |-> "ok", err |-> "", individuals |-> rolls, results |-> results,
              total |-> [kind |-> "Int", num |-> int.value, den |-> 1]]


----------------------------------------------------------------------------
(* Inputs of SpecParse *)

MaxRuns == 5

\* u16::to_string
RECURSIVE Decimal(_)
Decimal(n) ==
    LET c == CHOOSE d \in DigitChars : DigitVal(d) = n % 10
    IN  IF n < 10 THEN <<c>> ELSE Append(Decimal(n \div 10), c)

\* Digit runs around the limits of the parser, and the runs of letters that
\* make the operations d, k, e, s, e;s, es, u, s;u and two invalid ones.
NumberTokens ==
    { Decimal(n) : n \in {2, AmountLimit + 1, SidesLimit + 1, U16Max + 1} }

AlphaTokens ==
    { <<"d">>, <<"k">>, <<"e">>, <<"s">>, <<"e", "s">>, <<"u">>, <<"x">> }

\* the texts of exactly n runs, digit runs and letter runs alternating
RECURSIVE RunTexts(_, _)
RunTexts(n, digit) ==
    IF n = 0 THEN { <<>> }
    ELSE { tok \o rest : tok \in (IF digit THEN NumberTokens ELSE AlphaTokens),
                         rest \in RunTexts(n - 1, ~digit) }

ParseTexts == UNION { RunTexts(n, b) : n \in 0..MaxRuns, b \in BOOLEAN }

\* Every text of at most MaxText parts, a part being a digit, a blank with
\* an upper-case letter or one of the four operators, and the two texts of
\* the documentation of the parser.
MaxText == 5

RECURSIVE ExprTexts(_)
ExprTexts(n) ==
    IF n = 0 THEN { <<>> }
    ELSE LET shorter == ExprTexts(n - 1)
         IN  shorter \cup { t \o part : t \in shorter,
                                        part \in { <<"2">>, <<" ", "D">> }
                                                    \cup { <<c>> : c \in ArithChars } }

SignTexts ==
    ExprTexts(MaxText)
        \cup { <<"2", "d", "2", "0", " ", "-", " ", "-", " ", "+", "5">>,
               <<" ", " ", "2", " ", "D", " ", "2", "0", " ", "+", " ", "5", " ">> }

----------------------------------------------------------------------------
(* Inputs of Spec *)

MaxAmount == 2
MaxSides == 2
MaxArg == 2
MaxRequests == 2

\* the number n given, or left out
Optional(numbers) == { Decimal(n) : n \in numbers } \cup { <<>> }

\* the keys of DICE_IDS_MAP, each part followed by its number
RECURSIVE OpTexts(_)
OpTexts(ids) ==
    IF ids = <<>> THEN { <<>> }
    ELSE { Head(ids) \o arg \o rest : arg \in Optional(0..MaxArg),
                                       rest \in OpTexts(Tail(ids)) }

\* N d S followed by an operation
SingleTexts ==
    { Decimal(a) \o <<"d">> \o Decimal(n) \o op :
        a \in 0..MaxAmount, n \in 0..MaxSides,
        op \in UNION { OpTexts(e[1]) : e \in DiceIdsMap } }

\* two terms joined by an operator
TermTexts ==
    { <<"1", "d", "2">>, <<"0", "d", "2">>, <<"2">>,
      <<"2", "d", "2", "s", "2">>, <<"1", "d", "1", "e", "1">> }

PairTexts ==
    { a \o <<op>> \o b : a \in TermTexts, b \in TermTexts, op \in ArithChars }

\* three dice kept or dropped, the least roll in which two of the drawn
\* values tie while a third differs
TieTexts ==
    { <<"3", "d", "2">> \o op \o <<k>> :
        op \in { <<"k">>, <<"k", "l">>, <<"d">>, <<"d", "h">> }, k \in {"1", "2"} }

\* three literal terms, with and without a leading sign: the least
\* expressions in which the order of the fold shows
TripleTexts ==
    { sign \o <<"2", o1, "3", o2, "4">> :
        sign \in { <<>>, <<"+">>, <<"-">> }, o1 \in ArithChars, o2 \in ArithChars }

\* with them, the bounded kinds with a bound or a modifier at the end of
\* i16 and past it
RollTexts ==
    LET wide == { Decimal(I16Max), Decimal(I16Max + 1) }
        bounded == { <<"1", "d", "2", "u">> \o n : n \in wide }
                       \cup { <<"1", "d", "2", "l">> \o n : n \in wide }
                       \cup { <<"1", "d", "2", "a">> \o n \o <<"u", "2">> : n \in wide }
                       \cup { <<"1", "d", "2", "s">> \o n \o <<"l", "0">> : n \in wide }
                       \cup { <<"2", "d", "1", "l">> \o n : n \in wide }
    IN  SingleTexts \cup PairTexts \cup TieTexts \cup TripleTexts \cup bounded

----------------------------------------------------------------------------
(* Display *)

\* Vec::join: the texts with sep between them
RECURSIVE Join(_, _)
Join(texts, sep) ==
    IF texts = <<>> THEN <<>>
    ELSE IF Len(texts) = 1 THEN texts[1]
    ELSE texts[1] \o sep \o Join(Tail(texts), sep)

\* Display for DiceResult.  The sum is the u16 sum that result() has taken
\* before.
DisplayDiceResult(res) ==
    LET values == Join([i \in 1..Len(res.seq) |-> Decimal(res.seq[i])], <<",", " ">>)
        hits == CountIf(res.seq, res.success_threshold..U16Max)
        sum == IF Len(res.seq) <= 1 THEN <<>>
               ELSE IF res.success_threshold # None
               THEN <<" ", ">", "=", " ">> \o Decimal(res.success_threshold)
                        \o <<" ", "=", " ">> \o Decimal(hits)
               ELSE <<" ", "=", " ">> \o Decimal(WrapU16(SumSeq(res.seq)))
        mark == IF res.truly_random THEN <<>>
                ELSE <<" ", "[", "p", "s", "e", "u", "d", "o", "-",
                       "r", "a", "n", "d", "o", "m", "]">>
    IN  IF res.seq = <<>> THEN <<"0">> ELSE values \o sum \o mark

\* Display for RollNumber: an Int as it is, a Float with two decimals, the
\* nearest ones and of two equally near ones the even one
DisplayRollNumber(total) ==
    LET n == Abs(total.num)
        d == total.den
        twice == (2 * 100 * n) \div d
        exact == (2 * 100 * n) % d = 0
        down == twice \div 2
        hundredths == IF twice % 2 = 0 THEN down
                      ELSE IF exact /\ down % 2 = 0 THEN down
                      ELSE down + 1
        cents == hundredths % 100
        sign == IF total.num < 0 THEN <<"-">> ELSE <<>>
    IN  IF total.kind = "Int" THEN sign \o Decimal(n)
        ELSE sign \o Decimal(hundredths \div 100) \o <<".">>
                 \o Decimal(cents \div 10) \o Decimal(cents % 10)

\* Display for CompoundDiceResult
DisplayCompound(individuals, total) ==
    IF Len(individuals) > 1
    THEN Join([i \in 1..Len(individuals) |-> DisplayDiceResult(individuals[i])],
              <<";", " ">>)
             \o <<";", " ", "=", " ">> \o DisplayRollNumber(total)
    ELSE DisplayDiceResult(individuals[1])

----------------------------------------------------------------------------
(* State *)

NoParse == [status |-> "none", err |-> "", dice |-> <<>>, ops |-> <<>>]

\* no test oracle: the requests go to RANDOM.ORG
NoMock == [tape |-> <<>>, arrived |-> 0, ticket |-> <<>>]

InitCommon ==
    /\ phase = "input"
    /\ parsed = NoParse
    /\ checks = "unknown"
    /\ die = <<>>
    /\ outcome = NoOutcome

InitParse == text \in ParseTexts /\ InitCommon /\ mock = NoMock

Init == text \in RollTexts /\ InitCommon /\ mock = NoMock

\* the caller hands the text to CompoundDiceRoll::parse
Parse ==
    /\ phase = "input"
    /\ parsed' = CompoundParse(text)
    /\ phase' = "parsed"
    /\ UNCHANGED <<text, checks, die, outcome, mock>>

\* the caller calls result() on the parsed roll: join_all creates one
\* future per Dice
ResultStart ==
    /\ phase = "parsed"
    /\ parsed.status = "ok"
    /\ phase' = "rolling"
    /\ die' = [i \in 1..Len(parsed.dice) |-> FutureInit]
    /\ UNCHANGED <<text, parsed, checks, outcome, mock>>

\* the builds the run can still be of
Modes == IF checks = "unknown" THEN {"on", "off"} ELSE {checks}

\* Future i moves to the state the step gives: on in a build with overflow
\* checks, off in one without.  A step that depends on the build settles
\* the build; a panic of the future unwinds result().
Step(i, on, off) ==
    \E mode \in Modes :
        LET new == IF mode = "on" THEN on ELSE off
        IN  /\ new.requests <= MaxRequests
            /\ die' = [die EXCEPT ![i] = new]
            /\ checks' = IF on = off THEN checks ELSE mode
            /\ IF new.res.status = "panic"
               THEN phase' = "done" /\ outcome' = ResultPanic(new.res.err)
               ELSE UNCHANGED <<phase, outcome>>
            /\ UNCHANGED <<text, parsed>>

\* the step of a future whose requests go to RANDOM.ORG
Poll(i, on, off) == Step(i, on, off) /\ UNCHANGED mock

Rolling(i, pcs) == phase = "rolling" /\ i \in DOMAIN die /\ die[i].pc \in pcs

Reply(i) == CallRandomOrg(die[i].req.num, die[i].req.max, die[i].req.min)

RollBegin(i) ==
    /\ Rolling(i, {"start"})
    /\ Poll(i, RollStart(parsed.dice[i], die[i], "on"),
               RollStart(parsed.dice[i], die[i], "off"))

RegularReply(i) ==
    /\ Rolling(i, {"regular"})
    /\ \E r \in Reply(i) :
        LET new == RegularResume(parsed.dice[i], die[i], r)
        IN  Poll(i, new, new)

SuccessReply(i) ==
    /\ Rolling(i, {"success"})
    /\ \E r \in Reply(i) :
        LET new == SuccessResume(parsed.dice[i], die[i], r)
        IN  Poll(i, new, new)

DropReply(i) ==
    /\ Rolling(i, {"drop"})
    /\ \E r \in Reply(i) :
        LET new == DropResume(parsed.dice[i], die[i], r)
        IN  Poll(i, new, new)

KeepReply(i) ==
    /\ Rolling(i, {"keep"})
    /\ \E r \in Reply(i) :
        LET new == KeepResume(parsed.dice[i], die[i], r)
        IN  Poll(i, new, new)

RerollOnceReply(i) ==
    /\ Rolling(i, {"reroll_first", "reroll_second"})
    /\ \E r \in Reply(i) :
        LET new == RerollOnceResume(parsed.dice[i], die[i], r)
        IN  Poll(i, new, new)

ExplodeReply(i) ==
    /\ Rolling(i, {"explode_first", "explode_next"})
    /\ \E r \in Reply(i) :
        LET new == ExplodeResume(parsed.dice[i], die[i], r)
        IN  Poll(i, new, new)

OpenReply(i) ==
    /\ Rolling(i, {"open_first", "open_next"})
    /\ \E r \in Reply(i) :
        Poll(i, OpenResume(parsed.dice[i], die[i], r, "on"),
                OpenResume(parsed.dice[i], die[i], r, "off"))

BoundedReply(i) ==
    /\ Rolling(i, {"bounded"})
    /\ \E r \in Reply(i) :
        Poll(i, BoundedResume(parsed.dice[i], die[i], r, "on"),
                BoundedResume(parsed.dice[i], die[i], r, "off"))

OpenEndedReply(i) ==
    /\ Rolling(i, {"open_ended_first", "open_ended_high", "open_ended_low"})
    /\ \E r \in Reply(i) :
        Poll(i, OpenEndedResume(parsed.dice[i], die[i], r, "on"),
                OpenEndedResume(parsed.dice[i], die[i], r, "off"))

\* result() going on as soon as one future is done
ResultFoldEarly ==
    /\ phase = "rolling"
    /\ \E i \in DOMAIN die : die[i].pc = "done"
    /\ outcome' = ResultOf(parsed.dice, parsed.ops, [i \in DOMAIN die |-> die[i].res], "off")
    /\ phase' = "done"
    /\ UNCHANGED <<text, parsed, checks, die, mock>>

\* join_all has every roll: result() handles the errors and folds
ResultFold ==
    /\ phase = "rolling"
    /\ \A i \in DOMAIN die : die[i].pc = "done"
    /\ \E mode \in Modes :
        LET rolls == [i \in DOMAIN die |-> die[i].res]
            on == ResultOf(parsed.dice, parsed.ops, rolls, "on")
            off == ResultOf(parsed.dice, parsed.ops, rolls, "off")
        IN  /\ outcome' = IF mode = "on" THEN on ELSE off
            /\ checks' = IF on = off THEN checks ELSE mode
    /\ phase' = "done"
    /\ UNCHANGED <<text, parsed, die, mock>>

NextParse == Parse

Next ==
    \/ Parse
    \/ ResultStart
    \/ \E i \in DOMAIN die : RollBegin(i)
    \/ \E i \in DOMAIN die : RegularReply(i)
    \/ \E i \in DOMAIN die : SuccessReply(i)
    \/ \E i \in DOMAIN die : DropReply(i)
    \/ \E i \in DOMAIN die : KeepReply(i)
    \/ \E i \in DOMAIN die : RerollOnceReply(i)
    \/ \E i \in DOMAIN die : ExplodeReply(i)
    \/ \E i \in DOMAIN die : OpenReply(i)
    \/ \E i \in DOMAIN die : BoundedReply(i)
    \/ \E i \in DOMAIN die : OpenEndedReply(i)
    \/ ResultFold

SpecParse == InitParse /\ [][NextParse]_vars

InitSigns == text \in SignTexts /\ InitCommon /\ mock = NoMock

SpecSigns == InitSigns /\ [][NextParse]_vars

Spec == Init /\ [][Next]_vars

----------------------------------------------------------------------------
(* The oracle of a test: a fixed sequence of replies, handed out in the    *)
(* order in which the requests arrive.  join_all polls the futures in      *)
(* input order, so the first requests arrive in input order; a future      *)
(* that goes on after its reply sends its next request when it is polled.  *)

MaxTape == 4

\* a term that asks once, one that asks again after a 1 and one that asks
\* again after a 2
MockTexts ==
    LET terms == { <<"1", "d", "2">>, <<"1", "d", "2", "r", "k", "2">>,
                   <<"1", "d", "2", "e", "1">> }
    IN  terms \cup { a \o <<op>> \o b : a \in terms, b \in terms, op \in {"+", "-"} }

\* the sequences of n replies of one value each
RECURSIVE Tapes(_)
Tapes(n) ==
    IF n = 0 THEN { <<>> }
    ELSE { <<r>> \o t : r \in { <<1>>, <<2>> }, t \in Tapes(n - 1) }

MockOf(tape) == [tape |-> tape, arrived |-> 0, ticket |-> [i \in 1..Len(tape) |-> 0]]

InitMock ==
    /\ text \in MockTexts
    /\ InitCommon
    /\ mock \in { MockOf(t) : t \in Tapes(MaxTape) }

\* Dice::roll going on after the await of the function it called
Resume(d, st, r, mode) ==
    CASE st.pc = "regular" -> RegularResume(d, st, r)
      [] st.pc = "success" -> SuccessResume(d, st, r)
      [] st.pc = "drop" -> DropResume(d, st, r)
      [] st.pc = "keep" -> KeepResume(d, st, r)
      [] st.pc \in {"reroll_first", "reroll_second"} -> RerollOnceResume(d, st, r)
      [] st.pc \in {"explode_first", "explode_next"} -> ExplodeResume(d, st, r)
      [] st.pc \in {"open_first", "open_next"} -> OpenResume(d, st, r, mode)
      [] st.pc = "bounded" -> BoundedResume(d, st, r, mode)
      [] st.pc \in {"open_ended_first", "open_ended_high", "open_ended_low"} ->
             OpenEndedResume(d, st, r, mode)

\* the oracle after future i went from old to new: a request that new sent
\* takes the next turn
Arrive(m, i, old, new) ==
    IF new.requests > old.requests
    THEN [m EXCEPT !.arrived = @ + 1, !.ticket[i] = m.arrived + 1]
    ELSE m

\* future i polled: from its start, or on from its await with the reply
\* that the oracle m has for the turn of its request
MockPolled(dice, dies, m, i, mode) ==
    IF dies[i].pc = "start" THEN RollStart(dice[i], dies[i], mode)
    ELSE Resume(dice[i], dies[i],
                [seq |-> m.tape[m.ticket[i]], truly |-> TRUE], mode)

\* Future i can be polled: the first poll of join_all takes the futures in
\* input order, and a reply is there for a request whose turn is on the tape.
MockCanRun(dies, m, i) ==
    IF dies[i].pc = "start" THEN \A j \in 1..(i - 1) : dies[j].pc # "start"
    ELSE /\ dies[i].pc # "done"
         /\ \A j \in DOMAIN dies : dies[j].pc # "start"
         /\ m.ticket[i] \in 1..Len(m.tape)

MockBegin(i) ==
    /\ Rolling(i, {"start"})
    /\ MockCanRun(die, mock, i)
    /\ Step(i, MockPolled(parsed.dice, die, mock, i, "on"),
               MockPolled(parsed.dice, die, mock, i, "off"))
    /\ mock' = Arrive(mock, i, die[i], die'[i])

MockReply(i) ==
    /\ phase = "rolling" /\ i \in DOMAIN die /\ die[i].pc # "start"
    /\ MockCanRun(die, mock, i)
    /\ Step(i, MockPolled(parsed.dice, die, mock, i, "on"),
               MockPolled(parsed.dice, die, mock, i, "off"))
    /\ mock' = Arrive(mock, i, die[i], die'[i])

NextMock ==
    \/ Parse
    \/ ResultStart
    \/ \E i \in DOMAIN die : MockBegin(i)
    \/ \E i \in DOMAIN die : MockReply(i)
    \/ ResultFold

SpecMock == InitMock /\ [][NextMock]_vars

----------------------------------------------------------------------------
(* Properties of the parsers, under SpecParse.  Its texts hold no           *)
(* arithmetic operator, so each is handed to Dice::parse whole and parsed   *)
(* is what Dice::parse returned for it.                                     *)

ParseErrorKinds ==
    { "DiceStringInvalidCharacters", "DiceStringTooManyParts",
      "DiceStringInvalidOp", "DiceStringNumberTooLarge", "DiceAmountTooLarge",
      "DiceTooManySides", "CompoundDiceExprInvalidOpStructure" }

\* what the text says, read off its runs
TextIsLiteral == text # <<>> /\ IsDigits(text)
TextHasOversizeRun ==
    \E i \in 1..Len(DigitRuns(text)) : ParseU16(DigitRuns(text)[i]) = -1
TextAmount ==
    IF text # <<>> /\ text[1] \in DigitChars THEN ParseU16(DigitRuns(text)[1]) ELSE 1
TextMarksSides == text # <<>> /\ AlphaRuns(text) # <<>> /\ AlphaRuns(text)[1] = <<"d">>
TextSides ==
    LET after == IF text[1] \in DigitChars THEN Tail(DigitRuns(text)) ELSE DigitRuns(text)
    IN  IF TextMarksSides /\ after # <<>> THEN ParseU16(after[1]) ELSE DefaultSides
TextOpIds == IF TextMarksSides THEN Tail(AlphaRuns(text)) ELSE AlphaRuns(text)
\* letters that name an operation, with the numbers all fitting u16
TextIsDiceExpr ==
    /\ text # <<>> /\ ~TextIsLiteral /\ ~TextHasOversizeRun
    /\ Len(TextOpIds) <= 2 /\ HasKind(TextOpIds)

\* C1: for every input, the parse returns a parsed roll or one of the typed
\* errors; it never aborts on an assertion or on the access ids[0].
C1_ParseNeverAborts ==
    phase = "parsed" =>
        /\ parsed.status \in {"ok", "err"}
        /\ (parsed.status = "err" => parsed.err \in ParseErrorKinds)

\* C3 as claimed: every Dice of a successful parse, a bare integer literal
\* included, has amount <= 50 and sides <= 1000, and an amount over 50 is
\* rejected with DiceAmountTooLarge, sides over 1000 with DiceTooManySides.
C3_LimitsEveryDice ==
    phase = "parsed" =>
        /\ (parsed.status = "ok" =>
               \A i \in 1..Len(parsed.dice) :
                   /\ parsed.dice[i].amount <= AmountLimit
                   /\ parsed.dice[i].sides <= SidesLimit)
        /\ (TextIsDiceExpr /\ TextAmount > AmountLimit =>
               parsed.err = "DiceAmountTooLarge")
        /\ (TextIsDiceExpr /\ TextAmount <= AmountLimit /\ TextSides > SidesLimit =>
               parsed.err = "DiceTooManySides")

\* C3 as amended: the limits hold for every Dice parsed from a sub-expression
\* that is not a bare integer literal; a bare literal n gives amount n and
\* sides 1 whatever n is.  A sub-expression naming an operation is rejected
\* with DiceAmountTooLarge exactly when its amount is over 50, and with
\* DiceTooManySides exactly when its amount is not and its sides are over 1000.
C3_LimitsExceptLiteral ==
    phase = "parsed" =>
        /\ (parsed.status = "ok" /\ ~TextIsLiteral =>
               \A i \in 1..Len(parsed.dice) :
                   /\ parsed.dice[i].amount <= AmountLimit
                   /\ parsed.dice[i].sides <= SidesLimit)
        /\ (parsed.status = "ok" /\ TextIsLiteral =>
               parsed.dice = << [amount |-> ParseU16(text), sides |-> 1,
                                 kind |-> "Regular", args |-> <<>>] >>)
        /\ (TextIsDiceExpr =>
               /\ (parsed.err = "DiceAmountTooLarge") = (TextAmount > AmountLimit)
               /\ (parsed.err = "DiceTooManySides") =
                      (TextAmount <= AmountLimit /\ TextSides > SidesLimit))

\* C3 witness: a sub-expression over both limits was rejected for its amount
C3_Witness ==
    /\ phase = "parsed" /\ TextIsDiceExpr
    /\ TextAmount > AmountLimit /\ TextSides > SidesLimit
    /\ parsed.err = "DiceAmountTooLarge"

\* C4: a sub-expression of [a-z0-9] with a digit run that does not fit u16 is
\* rejected with DiceStringNumberTooLarge, unless TooManyParts or InvalidOp
\* applies first; this includes the sub-expression that is one bare integer.
C4_OversizeNumberRejected ==
    phase = "parsed" /\ TextHasOversizeRun
      /\ parsed.err \notin {"DiceStringTooManyParts", "DiceStringInvalidOp"}
    => parsed.status = "err" /\ parsed.err = "DiceStringNumberTooLarge"

----------------------------------------------------------------------------
(* Properties of the rolls, under Spec.  die[i] is the future of           *)
(* parsed.dice[i]; a Drop* or Keep* future that has returned has the       *)
(* values it drew in die[i].seq.                                           *)

\* the futures that returned a DiceResult
Rolled == { i \in DOMAIN die : die[i].pc = "done" /\ die[i].res.status = "ok" }

\* the futures that drew once, from a reply within the contract or from the
\* local generator, and ran to their end
DrewOnce ==
    { i \in DOMAIN die : die[i].pc = "done" /\ die[i].requests = 1 /\ die[i].rogues = 0 }

RECURSIVE IsSubsequence(_, _)
IsSubsequence(a, b) ==
    IF a = <<>> THEN TRUE
    ELSE IF b = <<>> THEN FALSE
    ELSE IF Head(a) = Head(b) THEN IsSubsequence(Tail(a), Tail(b))
    ELSE IsSubsequence(a, Tail(b))

\* the k smallest and the k largest values of seq, in ascending order
Smallest(seq, k) == SubSeq(Sorted(seq), 1, k)
Largest(seq, k) == SubSeq(Sorted(seq), Len(seq) - k + 1, Len(seq))

\* C2: the args of every parsed Dice match the arity of its kind, so that no
\* roll reads an argument index that does not exist.
C2_ArgsMatchArity ==
    \A i \in DOMAIN die : die[i].res # RollPanic(ArgsPanic)

\* C5: for sides >= 2 and 1 <= K <= amount, Keep returns the K largest of
\* the drawn values and KeepLow the K smallest, as multisets.
C5_KeepReturnsExtremes ==
    \A i \in DrewOnce :
        LET d == parsed.dice[i]
        IN  d.kind \in {"Keep", "KeepLow"} /\ Len(d.args) >= 1 /\ d.args[1] >= 1 =>
                /\ die[i].res.status = "ok"
                /\ Sorted(die[i].res.seq) =
                       IF d.kind = "Keep" THEN Largest(die[i].seq, d.args[1])
                       ELSE Smallest(die[i].seq, d.args[1])

\* C6: for sides >= 2 and 1 <= K <= amount, Drop returns the drawn values without
\* the K smallest and DropHigh without the K largest: amount - K values, in
\* the order they were rolled.
C6_DropRemovesExtremes ==
    \A i \in DrewOnce :
        LET d == parsed.dice[i]
            n == Len(die[i].seq)
        IN  d.kind \in {"Drop", "DropHigh"} /\ Len(d.args) >= 1 /\ d.args[1] >= 1 =>
                /\ die[i].res.status = "ok"
                /\ Len(die[i].res.seq) = d.amount - d.args[1]
                /\ Sorted(die[i].res.seq) =
                       IF d.kind = "Drop" THEN Largest(die[i].seq, n - d.args[1])
                       ELSE Smallest(die[i].seq, n - d.args[1])
                /\ IsSubsequence(die[i].res.seq, die[i].seq)

\* the length C7 gives the seq of a roll of d
ClaimedLen(d) ==
    IF d.kind \in {"Drop", "DropHigh"} THEN d.amount - d.args[1]
    ELSE IF d.kind \in {"Keep", "KeepLow"} THEN d.args[1]
    ELSE d.amount

\* C7, for sides >= 2 and replies within the contract: a roll with
\* amount > 0 that succeeds returns amount values for Regular, Reroll,
\* Success, RerollOnce*, the bounded kinds, Open and OpenEnded*, amount - K
\* for Drop*, and K for Keep*.
C7_SeqLength ==
    \A i \in Rolled :
        LET d == parsed.dice[i]
        IN  /\ d.amount > 0 /\ d.sides >= 2 /\ die[i].rogues = 0
            /\ d.kind \notin {"Explode", "ExplodingSuccess"}
            => Len(die[i].res.seq) = ClaimedLen(d)

\* C8, for sides >= 2: every value of a Regular or Reroll roll that succeeds
\* is in T..sides, T being 1 for Regular and args[0] for Reroll, and a Reroll
\* with T > sides returns DiceExprInvalidArgument.
C8_RegularInRange ==
    \A i \in DOMAIN die :
        LET d == parsed.dice[i]
            T == IF d.kind = "Reroll" THEN d.args[1] ELSE 1
        IN  /\ die[i].pc = "done" /\ d.kind \in {"Regular", "Reroll"}
            /\ d.amount > 0 /\ d.sides >= 2
            /\ (d.kind = "Reroll" => Len(d.args) >= 1)
            => /\ (T > d.sides => die[i].res = InvalidArgument)
               /\ (die[i].res.status = "ok" =>
                      \A j \in 1..Len(die[i].res.seq) :
                          die[i].res.seq[j] \in T..d.sides)

\* the aggregate of a DiceResult as C9 gives it
Aggregate(res) ==
    IF res.success_threshold # None
    THEN CountIf(res.seq, res.success_threshold..U16Max)
    ELSE SumSeq(res.seq)

\* C9: the number result() folds into total and tests for a division by
\* zero is, for a sub-roll with a success threshold T, the count of its
\* values >= T, and for any other sub-roll the sum of its values.
C9_AggregateCountsSuccesses ==
    /\ outcome.status = "ok" =>
           \A i \in 1..Len(outcome.individuals) :
               outcome.results[i] = Aggregate(outcome.individuals[i])
    /\ phase = "done" /\ Rolled = DOMAIN die /\ Len(parsed.ops) = Len(die) - 1
         /\ (\E i \in 2..Len(die) :
                parsed.ops[i - 1] = "Divide" /\ Aggregate(die[i].res) = 0)
       => outcome.err = "DiceExprDivisionByZero"

\* C10: the truly_random of every DiceResult that roll returns is true
\* exactly when no request of the roll was served by the local generator,
\* rolls that make no request included.
C10_TrulyRandomIffNoFallback ==
    \A i \in Rolled : die[i].res.truly_random = (die[i].fallbacks = 0)

\* C11: whatever the oracle replies, call_randomorg(num, max, min) returns
\* exactly num values, each in min..max, and its flag is true only when the
\* reply of the oracle was used: a reply with a value outside min..max or
\* with another number of lines is a failure, served by the local generator.
C11_CallReturnsNumInRange ==
    \A i \in DOMAIN die :
        die[i].req.num > 0 =>
            \A r \in Reply(i) :
                /\ Len(r.seq) = die[i].req.num
                /\ \A j \in 1..Len(r.seq) : r.seq[j] \in die[i].req.min..die[i].req.max

\* the operator result() pairs with dice[i]: an Add is put in front when the
\* text gave no leading sign
PairedOp(i) ==
    IF Len(parsed.ops) < Len(parsed.dice)
    THEN IF i = 1 THEN "Add" ELSE parsed.ops[i - 1]
    ELSE parsed.ops[i]

\* the sub-rolls that succeeded with aggregate zero and are paired with Divide
ZeroDivisors ==
    { i \in Rolled : Aggregate(die[i].res) = 0 /\ PairedOp(i) = "Divide" }

\* C12: when some sub-roll succeeds with aggregate zero and is paired with
\* Divide, result() returns DiceExprDivisionByZero whatever the other
\* sub-rolls did, so no total is computed by dividing by a zero aggregate.
C12_DivisionByZeroFirst ==
    phase = "done" /\ outcome.status # "panic" /\ ZeroDivisors # {} =>
        outcome.status = "err" /\ outcome.err = "DiceExprDivisionByZero"

\* the sub-rolls that returned an error
Failed == { i \in DOMAIN die : die[i].pc = "done" /\ die[i].res.status = "err" }

\* C13: result() returns the error of the one sub-roll that failed,
\* CompoundDiceMultipleRollErrors when two or more failed, and no roll error
\* when none failed.
C13_ErrorsByCount ==
    phase = "done" /\ outcome.status # "panic" =>
        /\ \A i \in Failed :
               Cardinality(Failed) = 1 => outcome = ResultErr(die[i].res.err)
        /\ (Cardinality(Failed) >= 2 =>
               outcome = ResultErr("CompoundDiceMultipleRollErrors"))
        /\ (Failed = {} =>
               outcome.err \notin { "DiceExprInvalidArgument", "DiceExprInvalidSides",
                                    "CompoundDiceMultipleRollErrors" })

\* C13 witness: two sub-rolls failed and result() returned
C13_Witness ==
    /\ phase = "done" /\ Cardinality(Failed) = 2
    /\ outcome.err = "CompoundDiceMultipleRollErrors"

\* the operators paired with the sub-rolls, the implicit leading Add included
PairedOps == [i \in DOMAIN die |-> PairedOp(i)]

\* the sums of the sub-rolls' values, in input order
Sums == [i \in DOMAIN die |-> SumSeq(die[i].res.seq)]

\* The exact value, as a fraction num / den, of the first k pairs applied one
\* after the other from the left to the accumulator 0.
RECURSIVE ExactFold(_, _, _)
ExactFold(aggregates, ops, k) ==
    IF k = 0 THEN [num |-> 0, den |-> 1]
    ELSE LET acc == ExactFold(aggregates, ops, k - 1)
             a == aggregates[k]
         IN  CASE ops[k] = "Add" -> [num |-> acc.num + a * acc.den, den |-> acc.den]
               [] ops[k] = "Subtract" -> [num |-> acc.num - a * acc.den, den |-> acc.den]
               [] ops[k] = "Multiply" -> [num |-> acc.num * a, den |-> acc.den]
               [] ops[k] = "Divide" -> [num |-> acc.num, den |-> acc.den * a]

HasDivide == \E i \in 1..Len(parsed.ops) : parsed.ops[i] = "Divide"

\* every sub-roll succeeded with a sum that fits its u16, no divisor is zero
\* and no value of the integer fold leaves i32
Foldable ==
    /\ phase = "done" /\ outcome.status # "panic"
    /\ Rolled = DOMAIN die
    /\ \A i \in DOMAIN die : InU16(Sums[i])
    /\ \A i \in DOMAIN die : ~(Sums[i] = 0 /\ PairedOps[i] = "Divide")
    /\ HasDivide \/ \A k \in DOMAIN die :
                        Abs(ExactFold(Sums, PairedOps, k).num) <= I32Max

\* C14: when every sub-roll succeeds, no divisor is zero and no sum or
\* intermediate value leaves its integer type, total is the
\* fold of the sub-rolls' sums in input order, strictly from the left and
\* from the accumulator 0, with an implicit leading Add when there is one
\* operator less than there are dice; it is a Float exactly when the
\* expression has a Divide, and an Int otherwise.
C14_TotalIsLeftFold ==
    Foldable =>
        LET exact == ExactFold(Sums, PairedOps, Len(die))
        IN  /\ outcome.status = "ok"
            /\ outcome.total.kind = IF HasDivide THEN "Float" ELSE "Int"
            /\ outcome.total.num * exact.den = exact.num * outcome.total.den
            /\ ~HasDivide => outcome.total.den = 1

\* C14 witness: 2+3*4 gave the Int 20
C14_Witness ==
    /\ text = <<"2", "+", "3", "*", "4">>
    /\ Foldable
    /\ outcome.total = [kind |-> "Int", num |-> 20, den |-> 1]

\* C15: result() creates one future per Dice before any of them runs, and
\* neither tests for errors, folds nor returns before every one of them is
\* done, a failed one among them or not; in whatever order they finish,
\* individuals[i] is the result of the future of dice[i].
C15_JoinAllInInputOrder ==
    /\ phase = "rolling" => Len(die) = Len(parsed.dice) /\ outcome = NoOutcome
    /\ phase = "done" /\ outcome.status # "panic" =>
           \A i \in DOMAIN die : die[i].pc = "done"
    /\ outcome.status = "ok" =>
           /\ outcome.individuals = [i \in DOMAIN die |-> die[i].res]
           /\ outcome.results = [i \in DOMAIN die |-> WrapU16(Sums[i])]

\* C15 witness: two sub-rolls that both waited for the oracle returned
\* different values, and result() returned them
C15_Witness ==
    /\ phase = "done" /\ outcome.status = "ok" /\ Len(die) = 2
    /\ die[1].requests > 0 /\ die[2].requests > 0
    /\ outcome.individuals[1].seq # outcome.individuals[2].seq

\* The run of the futures of dice with the oracle m in which the future
\* polled is always the first one in input order that can be polled.
RECURSIVE MockRun(_, _, _)
MockRun(dice, dies, m) ==
    LET ready == { i \in DOMAIN dies :
                     /\ MockCanRun(dies, m, i)
                     /\ MockPolled(dice, dies, m, i, "off").requests <= MaxRequests }
    IN  IF ready = {} THEN dies
        ELSE LET i == CHOOSE i \in ready : \A j \in ready : i <= j
                 new == MockPolled(dice, dies, m, i, "off")
             IN  MockRun(dice, [dies EXCEPT ![i] = new], Arrive(m, i, dies[i], new))

\* the futures at the end of that run of the parsed roll with the tape of mock
MockRunOfParsed ==
    MockRun(parsed.dice, [i \in 1..Len(parsed.dice) |-> FutureInit], MockOf(mock.tape))

\* C16: with an oracle that hands out a fixed sequence of replies in the
\* order in which the requests arrive, every run of result() on the parsed
\* roll returns the same individuals and total, whatever the order in which
\* the sub-rolls go on and send their follow-up requests.
C16_MockedRunsAgree ==
    /\ phase = "done" /\ outcome.status # "panic"
    /\ \A i \in DOMAIN MockRunOfParsed : MockRunOfParsed[i].pc = "done"
    => outcome = ResultOf(parsed.dice, parsed.ops,
                          [i \in DOMAIN MockRunOfParsed |-> MockRunOfParsed[i].res], "off")

SignChars == {"+", "-"}

\* the length of the run of signs that s starts with
RECURSIVE SignRunLen(_)
SignRunLen(s) ==
    IF s # <<>> /\ Head(s) \in SignChars THEN 1 + SignRunLen(Tail(s)) ELSE 0

\* s with every maximal run of signs replaced by one sign: '-' when the run
\* has an odd number of '-', '+' otherwise
RECURSIVE RunsByParity(_)
RunsByParity(s) ==
    IF s = <<>> THEN <<>>
    ELSE LET n == SignRunLen(s)
             minuses == Cardinality({ i \in 1..n : s[i] = "-" })
         IN  IF n = 0 THEN <<Head(s)>> \o RunsByParity(Tail(s))
             ELSE <<IF minuses % 2 = 1 THEN "-" ELSE "+">>
                      \o RunsByParity(SubSeq(s, n + 1, Len(s)))

\* text without its blanks, in lower case, its runs of signs replaced
Canonical ==
    LET kept == SelectSeq(text, LAMBDA c : c # " ")
    IN  RunsByParity([i \in 1..Len(kept) |-> IF kept[i] = "D" THEN "d" ELSE kept[i]])

\* C17: the loop that collapses the signs ends, and ends with every maximal
\* run of '+' and '-' replaced by '-' if the run has an odd number of '-' and
\* by '+' otherwise, so that no two signs are adjacent; the parse of a text
\* is the parse of the text without blanks, in lower case and with its runs
\* replaced.
C17_SignRunsCollapse ==
    LET t == CollapseSigns(StripLower(text))
    IN  /\ t = Canonical
        /\ \A i \in 1..(Len(t) - 1) : ~(t[i] \in SignChars /\ t[i + 1] \in SignChars)
        /\ phase = "parsed" => parsed = CompoundParse(Canonical)

\* C17 witness: "2d20 - - +5" parsed as "2d20+5"
C17_Witness ==
    /\ text = <<"2", "d", "2", "0", " ", "-", " ", "-", " ", "+", "5">>
    /\ phase = "parsed"
    /\ parsed = CompoundParse(<<"2", "d", "2", "0", "+", "5">>)
    /\ parsed.status = "ok" /\ Len(parsed.dice) = 2 /\ parsed.ops = <<"Add">>

\* the parses of text followed by '-' and by '+'
WithMinus == CompoundParse(Append(text, "-"))
WithPlus == CompoundParse(Append(text, "+"))

\* text was parsed, successfully, and does not end in an operator
ParsedOperand ==
    /\ phase = "parsed" /\ parsed.status = "ok"
    /\ Last(StripLower(text)) \notin ArithChars

\* result() of the roll p when its sub-rolls return the one value a[i] each
TotalOf(p, a) ==
    ResultOf(p.dice, p.ops, [i \in 1..Len(p.dice) |-> RollOk(<<a[i]>>, TRUE, None)], "off")

\* C18: for a text e that parses and does not end in an operator, e followed
\* by '-' parses with the same dice, and for any values of the sub-rolls its
\* total is the negation of the total of e, whatever the operators of e are;
\* e followed by '+' parses as e does.
C18_TrailingMinusNegates ==
    ParsedOperand =>
        /\ WithPlus = parsed
        /\ WithMinus.status = "ok" /\ WithMinus.dice = parsed.dice
        /\ \A a \in [1..Len(parsed.dice) -> 0..2] :
               LET plain == TotalOf(parsed, a)
                   minus == TotalOf(WithMinus, a)
               IN  /\ minus.status = plain.status /\ minus.err = plain.err
                   /\ minus.total.kind = plain.total.kind
                   /\ minus.total.num = -plain.total.num
                   /\ minus.total.den = plain.total.den

\* C18 witness: 2+2*2 is 8 and 2+2*2- is -8
C18_Witness ==
    /\ text = <<"2", "+", "2", "*", "2">>
    /\ ParsedOperand
    /\ WithMinus.ops = <<"Subtract", "Subtract", "Multiply">>
    /\ TotalOf(parsed, <<2, 2, 2>>).total.num = 8
    /\ TotalOf(WithMinus, <<2, 2, 2>>).total.num = -8

\* text as parse splits it: blanks removed, lower case, signs collapsed and
\* the trailing sign handled
Normalised == TrailingSign(CollapseSigns(StripLower(text)))

\* Normalised has no piece to parse, or lacks an operand next to an operator
LacksOperand ==
    \/ Normalised = <<>>
    \/ Last(Normalised) \in {"*", "/"}
    \/ Head(Normalised) \in {"*", "/"}
    \/ \E i \in 1..(Len(Normalised) - 1) :
           Normalised[i] \in ArithChars /\ Normalised[i + 1] \in ArithChars

\* C19: a roll that parse returns has at least one Dice, and as many ops as
\* dice when the normalised text begins with a sign and one less when it does
\* not; a text that is empty after normalisation, ends or starts with '*' or
\* '/', or has two operators next to each other is rejected with
\* CompoundDiceExprInvalidOpStructure.
C19_OpsMatchDice ==
    phase = "parsed" =>
        /\ parsed.status = "ok" =>
               /\ Len(parsed.dice) >= 1
               /\ Len(parsed.ops) = IF Head(Normalised) \in SignChars
                                    THEN Len(parsed.dice)
                                    ELSE Len(parsed.dice) - 1
        /\ LacksOperand => parsed = CompoundErr("CompoundDiceExprInvalidOpStructure")
        /\ StripLower(text) # <<>> /\ ( \/ Head(StripLower(text)) \in {"*", "/"}
                                       \/ Last(StripLower(text)) \in {"*", "/"} )
               => parsed = CompoundErr("CompoundDiceExprInvalidOpStructure")

\* C19 witness: a text with a leading sign parsed into two dice and two ops
C19_Witness ==
    /\ phase = "parsed" /\ parsed.status = "ok"
    /\ Head(Normalised) \in SignChars
    /\ Len(parsed.dice) = 2 /\ Len(parsed.ops) = 2

\* what the roll command shows of the result
Shown == DisplayCompound(outcome.individuals, outcome.total)

Marker == <<"[", "p", "s", "e", "u", "d", "o", "-", "r", "a", "n", "d", "o", "m", "]">>

EndsWith(s, suffix) ==
    Len(s) >= Len(suffix) /\ SubSeq(s, Len(s) - Len(suffix) + 1, Len(s)) = suffix

\* the sub-rolls with a request that the local generator served
FellBack == { i \in DOMAIN die : die[i].fallbacks > 0 }

\* C20: when a request of the evaluation was served by the local generator,
\* the DiceResult of that sub-roll has truly_random false and the text shown
\* for the result ends with "[pseudo-random]", with one term and with more.
C20_FallbackIsShown ==
    phase = "done" /\ outcome.status = "ok" /\ FellBack # {} =>
        /\ \A i \in FellBack : ~outcome.individuals[i].truly_random
        /\ EndsWith(Shown, Marker)

\* the sub-rolls of Drop, DropHigh, Keep and KeepLow with at least two sides
\* that drew and returned
KeptOrDropped ==
    { i \in Rolled : /\ parsed.dice[i].kind \in {"Drop", "DropHigh", "Keep", "KeepLow"}
                     /\ parsed.dice[i].sides >= 2
                     /\ die[i].requests > 0 }

\* how often v occurs in s
Occurrences(s, v) == Cardinality({ j \in 1..Len(s) : s[j] = v })

\* C21: the seq that Drop, DropHigh, Keep and KeepLow return is a
\* subsequence of the drawn sequence, in the drawn order: no value occurs in
\* it more often than it was drawn, so the returned and the discarded values
\* together are the drawn ones.
C21_ReturnedIsSubsequence ==
    \A i \in KeptOrDropped :
        /\ IsSubsequence(die[i].res.seq, die[i].seq)
        /\ \A j \in 1..Len(die[i].res.seq) :
               Occurrences(die[i].res.seq, die[i].res.seq[j])
                   <= Occurrences(die[i].seq, die[i].res.seq[j])

\* C21 witness: of three drawn values, two were returned and one discarded
C21_Witness ==
    \E i \in KeptOrDropped :
        Len(die[i].seq) = 3 /\ Len(die[i].res.seq) = 2 /\ die[i].seq[1] # die[i].seq[2]

\* C22: a die of Open gets one more draw only while its most recent draw
\* equals sides and fewer than T extra draws were made for it: when the
\* reply to an extra draw is not sides, open is done with that die, it goes
\* on to the next die or returns.
C22_OpenStopsAfterLowerDraw ==
    \A i \in DOMAIN die :
        phase = "rolling" /\ die[i].pc = "open_next" =>
            \A r \in Reply(i) :
                Len(r.seq) = 1 /\ r.seq[1] < parsed.dice[i].sides =>
                    LET new == OpenResume(parsed.dice[i], die[i], r, "off")
                    IN  new.pc = "done" \/ new.idx > die[i].idx

\* the kinds whose roll draws again in a loop
LoopKinds == {"Explode", "ExplodingSuccess", "Open", "OpenEnded", "OpenEndedImplicit"}

\* C23: every roll ends.  A round of Explode and an extra draw of Open are
\* asked for only while fewer than the depth limit were made; a loop of
\* OpenEnded that waits for a draw is left for some face of the die, so
\* that a source that draws every face again and again ends it; and a die
\* of one side is rejected by these kinds instead of rolled.  The Dice are
\* those that parse gave every argument of their kind.
C23_EveryRollEnds ==
    \A i \in DOMAIN die :
        LET d == parsed.dice[i]
            arity == IF d.kind \in {"ExplodingSuccess", "OpenEnded"} THEN 2 ELSE 1
        IN  Len(d.args) >= arity =>
            /\ die[i].pc \in {"explode_next", "open_next"} => die[i].cnt < d.args[1]
            /\ die[i].pc \in {"open_ended_high", "open_ended_low"} =>
                   \E face \in 1..d.sides :
                       LET new == OpenEndedResume(d, die[i],
                                                  [seq |-> <<face>>, truly |-> TRUE], "off")
                       IN  new.pc = "done" \/ new.idx > die[i].idx
            /\ d.kind \in LoopKinds /\ d.sides = 1 /\ d.amount > 0 /\ die[i].pc # "start"
                   => die[i].pc = "done" /\ die[i].res.status = "err"

\* the numbers that text, one term N d S followed by its operation, gives
\* after its sides
GivenArgs ==
    LET runs == DigitRuns(StripLower(text))
    IN  [i \in 1..(Len(runs) - 2) |-> ParseU16(runs[i + 2])]

\* C24: the Dice parsed from NdSe or NdSo has the depth limit u16::MAX where
\* roll reads it, in args[0], and the Dice parsed from NdSeT or NdSoT has T
\* there.
C24_DefaultDepth ==
    parsed.status = "ok" /\ Len(parsed.dice) = 1 /\ parsed.dice[1].kind \in {"Explode", "Open"} =>
        /\ Len(parsed.dice[1].args) >= 1
        /\ parsed.dice[1].args[1] = IF GivenArgs = <<>> THEN U16Max ELSE GivenArgs[1]

\* the one Dice of text when it is an ExplodingSuccess
IsExplodingSuccess ==
    parsed.status = "ok" /\ Len(parsed.dice) = 1 /\ parsed.dice[1].kind = "ExplodingSuccess"

\* C25: the Dice parsed from NdSesT has the depth limit u16::MAX in args[0]
\* and the threshold T in args[1], and the Dice parsed from NdSeDsT has D and
\* T there; its roll with sides >= 2 is rejected, with
\* DiceExprInvalidArgument, only when T > sides, and a roll that returns has
\* success_threshold T.
C25_ExplodingSuccessArgs ==
    IsExplodingSuccess /\ Last(text) \in DigitChars /\ Len(GivenArgs) \in 1..2 =>
        LET d == parsed.dice[1]
            T == GivenArgs[Len(GivenArgs)]
        IN  /\ Len(d.args) = 2
            /\ d.args[1] = IF Len(GivenArgs) = 1 THEN U16Max ELSE GivenArgs[1]
            /\ d.args[2] = T
            /\ \A i \in DOMAIN die :
                   die[i].pc = "done" /\ d.sides >= 2 /\ d.amount > 0 /\ die[i].rogues = 0 =>
                       IF T > d.sides THEN die[i].res = InvalidArgument
                       ELSE /\ die[i].res.status = "ok"
                            /\ die[i].res.success_threshold = T

\* the futures of Explode with at least two sides and the depth T given,
\* served within the contract
Exploding ==
    { i \in DOMAIN die : /\ parsed.dice[i].kind = "Explode"
                         /\ parsed.dice[i].sides >= 2
                         /\ Len(parsed.dice[i].args) >= 1
                         /\ die[i].rogues = 0
                         /\ die[i].res.status # "panic" }

\* a follow-up batch is asked for only after a batch with a value equal to
\* sides and while fewer than T were added, with one value for each of them;
\* the roll returns what it has gathered after at most T follow-up batches
ExplodeState ==
    \A i \in Exploding :
        LET d == parsed.dice[i]
            maxed == CountIf(die[i].last, {d.sides})
        IN  /\ die[i].pc = "explode_next" =>
                   /\ die[i].req = [num |-> maxed, max |-> d.sides, min |-> 1]
                   /\ maxed > 0 /\ die[i].cnt < d.args[1]
            /\ die[i].pc = "done" /\ die[i].requests > 0 =>
                   /\ die[i].res.status = "ok" /\ die[i].res.seq = die[i].seq
                   /\ die[i].requests - 1 = die[i].cnt /\ die[i].cnt <= d.args[1]
                   /\ maxed = 0 \/ die[i].cnt = d.args[1]

\* a reply is one more batch: it has the number of values asked for and
\* goes to the end of what was gathered
ExplodeStep ==
    \A i \in Exploding :
        /\ phase = "rolling" /\ die[i].pc \in {"explode_first", "explode_next"}
        /\ die'[i] # die[i] /\ die'[i].rogues = 0 /\ die'[i].res.status # "panic"
        => /\ Len(die'[i].last) = die[i].req.num
           /\ die'[i].seq = die[i].seq \o die'[i].last
           /\ die'[i].cnt = IF die[i].pc = "explode_first" THEN 0 ELSE die[i].cnt + 1

OpenEnding ==
    { i \in DOMAIN die : /\ parsed.dice[i].kind \in {"OpenEnded", "OpenEndedImplicit"}
                         /\ Len(parsed.dice[i].args) >=
                                (IF parsed.dice[i].kind = "OpenEnded" THEN 2 ELSE 1)
                         /\ die[i].rogues = 0 }

\* C27: high and the accumulator of each die of OpenEnded stay in the range
\* of u16: the roll does not stop on an overflow, and a returned element,
\* the sum of the follow-up draws of its die or its negation, is no larger
\* than the follow-up draws can add up to.
C27_OpenEndedInRange ==
    \A i \in OpenEnding :
        die[i].pc = "done" =>
            /\ die[i].res.status # "panic"
            /\ die[i].res.status = "ok" =>
                   \A k \in DOMAIN die[i].res.seq :
                       die[i].res.seq[k] <= (die[i].requests - 1) * parsed.dice[i].sides

\* the futures of the bounded kinds with at least two sides and every
\* argument of their kind, served within the contract
Bounding ==
    { i \in DOMAIN die : /\ parsed.dice[i].kind \in BoundedKinds
                         /\ parsed.dice[i].sides >= 2
                         /\ Len(parsed.dice[i].args) >=
                                (IF parsed.dice[i].kind \in PlainBoundKinds THEN 1 ELSE 2)
                         /\ die[i].rogues = 0 }

\* the bound B and the modifier m (0, +M or -M) as the numbers written
WrittenBound(d) == IF d.kind \in PlainBoundKinds THEN d.args[1] ELSE d.args[2]
WrittenModifier(d) ==
    IF d.kind \in PlainBoundKinds THEN 0
    ELSE IF d.kind \in SubtractKinds THEN 0 - d.args[1]
    ELSE d.args[1]

\* C28: a bounded roll of dice with at least two sides returns for each
\* drawn value v the element max(0, min(v + m, B)) (Upper) or max(v + m, B)
\* (Lower), for every modifier M and bound B the parser accepts; an Upper
\* element is in [0, B] and a Lower element is at least B.
C28_BoundedClamps ==
    \A i \in Bounding :
        die[i].pc = "done" =>
            LET d == parsed.dice[i]
                B == WrittenBound(d)
                m == WrittenModifier(d)
            IN  /\ die[i].res.status = "ok"
                /\ \A k \in DOMAIN die[i].res.seq :
                       LET x == die[i].res.seq[k]
                       IN  IF d.kind \in UpperKinds
                           THEN /\ x \in 0..B
                                /\ \E v \in 1..d.sides : x = Max2(0, Min2(v + m, B))
                           ELSE /\ x >= B
                                /\ \E v \in 1..d.sides : x = Max2(v + m, B)

\* C29: no integer computation of an evaluation overflows its type, the
\* i16 products of the closed forms of the bounded kinds with one side
\* among them: no roll of such Dice ends in an arithmetic panic, and none
\* has an outcome that depends on whether the build checks overflow.
C29_NoOverflow ==
    \A i \in DOMAIN die :
        /\ parsed.dice[i].kind \in BoundedKinds /\ parsed.dice[i].sides = 1
        /\ parsed.dice[i].kind \in PlainBoundKinds /\ Len(parsed.dice[i].args) >= 1
        /\ Len(parsed.dice) = 1 /\ die[i].pc = "done"
        => /\ die[i].res.status # "panic"
           /\ checks = "unknown"

\* the futures of RerollOnceAndKeep and RerollOnceAndChoose with at least
\* two sides and a threshold of at most sides, served within the contract
RerollingOnce ==
    { i \in DOMAIN die : /\ parsed.dice[i].kind \in {"RerollOnceAndKeep", "RerollOnceAndChoose"}
                         /\ parsed.dice[i].sides >= 2
                         /\ Len(parsed.dice[i].args) >= 1
                         /\ parsed.dice[i].args[1] <= parsed.dice[i].sides
                         /\ die[i].rogues = 0 }

\* the same Dice of the other of the two kinds
OtherKind(d) ==
    [d EXCEPT !.kind = IF @ = "RerollOnceAndKeep" THEN "RerollOnceAndChoose"
                       ELSE "RerollOnceAndKeep"]

\* the replies that keep to the range and the number asked for
InRangeReplies(i) ==
    { r \in Reply(i) : r.seq \in Contract(die[i].req.num, die[i].req.max, die[i].req.min) }

\* seq with the k-th of its values below T replaced by the k-th replacement
Replaced(seq, rerolls, T) ==
    [k \in 1..Len(seq) |->
        IF seq[k] < T THEN rerolls[CountIf(SubSeq(seq, 1, k), 0..(T - 1))] ELSE seq[k]]

\* C30: RerollOnceAndKeep and RerollOnceAndChoose cannot be told apart: of
\* the same amount, sides >= 2 and T <= sides, and given the same replies
\* in range, both ask for amount values and then, only if some value is
\* below T, for as many values of T..sides as are below T, and both return
\* the first draw with each value below T replaced by its replacement, all
\* values at least T and at least the value drawn first.
C30_RerollOnceKindsAgree ==
    \A i \in RerollingOnce :
        LET d == parsed.dice[i]
            T == d.args[1]
            low == CountIf(die[i].seq, 0..(T - 1))
        IN  /\ phase = "rolling" /\ die[i].pc = "start" =>
                   /\ RerollOnceStart(d, die[i]) = RerollOnceStart(OtherKind(d), die[i])
                   /\ RerollOnceStart(d, die[i]).req = [num |-> d.amount, max |-> d.sides, min |-> 1]
            /\ phase = "rolling" /\ die[i].pc = "reroll_first" =>
                   \A r \in InRangeReplies(i) :
                       LET new == RerollOnceResume(d, die[i], r)
                           n == CountIf(r.seq, 0..(T - 1))
                       IN  /\ new = RerollOnceResume(OtherKind(d), die[i], r)
                           /\ IF n = 0 THEN new.pc = "done" /\ new.res.seq = r.seq
                              ELSE /\ new.pc = "reroll_second"
                                   /\ new.req = [num |-> n, max |-> d.sides, min |-> T]
            /\ phase = "rolling" /\ die[i].pc = "reroll_second" =>
                   \A r \in InRangeReplies(i) :
                       LET new == RerollOnceResume(d, die[i], r)
                       IN  /\ new = RerollOnceResume(OtherKind(d), die[i], r)
                           /\ new.pc = "done" /\ new.res.status = "ok"
                           /\ new.res.seq = Replaced(die[i].seq, r.seq, T)
            /\ die[i].pc = "done" /\ die[i].res.status = "ok" =>
                   /\ die[i].requests <= 2
                   /\ Len(die[i].res.seq) = d.amount
                   /\ \A k \in DOMAIN die[i].res.seq :
                          /\ die[i].res.seq[k] >= T
                          /\ die[i].requests = 2 => die[i].res.seq[k] >= die[i].seq[k]

\* C30 witness: a roll of RerollOnceAndChoose returned with a value replaced
C30_Witness ==
    \E i \in RerollingOnce :
        /\ parsed.dice[i].kind = "RerollOnceAndChoose"
        /\ die[i].pc = "done" /\ die[i].requests = 2
        /\ die[i].res.status = "ok" /\ die[i].res.seq # die[i].seq

====
